---- MODULE Spec2Model ----
(***************************************************************************)
(* A model of the CANopen object dictionary (src/src/co/obj.c) and of the  *)
(* TIME producer/consumer service (src/src/co/time.c).                     *)
(*                                                                         *)
(* Objects and sub-objects are heap cells named by handles; an object's    *)
(* value region is a heap region of bytes, and a sub-object's val pointer  *)
(* is a (region, offset) pair.  Values are kept as the little-endian byte  *)
(* sequences the host stores.                                              *)
(***************************************************************************)
EXTENDS Integers, Sequences, FiniteSets, TLC

\* ------------------------------------------------------------ bounds

\* Number of object handles.
NObj == 2
\* Number of sub-object handles.
NSub == 2
\* Largest sub-index used when creating a sub-object.
MaxSubIdx == 1
\* Largest small integer written as a value, limit or default.
MaxVal == 1
\* Number of calls of calloc() that fail in one run.
MaxFail == 1
\* Latest expiry of the producer's timer, in seconds after the start.
MaxTick == 1

\* ------------------------------------------------------------ constants

NULL == 0

CO_DEFTYPE_UNSIGNED8 == 5
CO_DEFTYPE_UNSIGNED16 == 6
CO_DEFTYPE_UNSIGNED32 == 7

\* The type codes CO_DEFTYPE_<name> of the static data types.
CO_DEFTYPE ==
  [BOOLEAN |-> 1, INTEGER8 |-> 2, INTEGER16 |-> 3, INTEGER32 |-> 4,
   UNSIGNED8 |-> CO_DEFTYPE_UNSIGNED8, UNSIGNED16 |-> CO_DEFTYPE_UNSIGNED16,
   UNSIGNED32 |-> CO_DEFTYPE_UNSIGNED32, REAL32 |-> 8,
   VISIBLE_STRING |-> 9, OCTET_STRING |-> 10, UNICODE_STRING |-> 11,
   TIME_OF_DAY |-> 12, TIME_DIFF |-> 13, INTEGER24 |-> 16,
   REAL64 |-> 17, INTEGER40 |-> 18, INTEGER48 |-> 19, INTEGER56 |-> 20,
   INTEGER64 |-> 21, UNSIGNED24 |-> 22, UNSIGNED40 |-> 24,
   UNSIGNED48 |-> 25, UNSIGNED56 |-> 26, UNSIGNED64 |-> 27]
    @@ ("DOMAIN" :> 15)

\* A type code that names no type.
INVALID_TYPE == 65535

\* The largest of the other type codes the type predicates are applied to.
MaxType == 63

\* Access modes: bit 0 read, bit 1 write, bit 2 TPDO, bit 3 RPDO.
CO_ACCESS_READ == 1
CO_ACCESS_WRITE == 2
CO_ACCESS_RO == 5
CO_ACCESS_WO == 10
CO_ACCESS_RW == 15
CO_ACCESS_RWR == 7
CO_ACCESS_RWW == 11
CO_ACCESS_CONST == 21

CO_OBJ_FLAGS_WRITE == 2

\* Bits of the TIME COB-ID (0x80000000, 0x40000000, 0x20000000), by number.
CO_TIME_COBID_CONSUMER == 31
CO_TIME_COBID_PRODUCER == 30
CO_TIME_COBID_FRAME == 29
\* Widths of the CAN-ID masks CAN_MASK_BID (0x7ff) and CAN_MASK_EID
\* (0x1fffffff).
CAN_MASK_BID == 11
CAN_MASK_EID == 29
CAN_FLAG_IDE == 1
CAN_FLAG_RTR == 2
CAN_FLAG_EDL == 4

\* SDO abort codes (0x06090011, 0x06010002, 0x06010001, 0x08000000,
\* 0x06070010, 0x06070012, 0x06070013, 0x06090030, 0x06090031, 0x06090032,
\* 0x06090036).
CO_SDO_AC_NO_SUB == 101253137
CO_SDO_AC_NO_WRITE == 100728834
CO_SDO_AC_NO_READ == 100728833
CO_SDO_AC_ERROR == 134217728
CO_SDO_AC_TYPE_LEN == 101122064
CO_SDO_AC_TYPE_LEN_HI == 101122066
CO_SDO_AC_TYPE_LEN_LO == 101122067
CO_SDO_AC_PARAM_VAL == 101253168
CO_SDO_AC_PARAM_HI == 101253169
CO_SDO_AC_PARAM_LO == 101253170
CO_SDO_AC_PARAM_RANGE == 101253174
\* 0x08000024
CO_SDO_AC_NO_DATA == 134217764

Objs == 1 .. NObj
Subs == 1 .. NSub
Regions == 1 .. (NObj + 1)
SubIdxs == 0 .. MaxSubIdx
Types == {CO_DEFTYPE_UNSIGNED8, CO_DEFTYPE_UNSIGNED16}

\* ------------------------------------------------------------ value codec

\* Size in bytes of a value of the given type in host storage.
co_type_sizeof(type) ==
  CASE type = CO_DEFTYPE_UNSIGNED8 -> 1
    [] type = CO_DEFTYPE_UNSIGNED16 -> 2
    [] type = CO_DEFTYPE_UNSIGNED32 -> 4
    [] OTHER -> 0

\* Alignment requirement of a value of the given type.
co_type_alignof(type) ==
  CASE type = CO_DEFTYPE_UNSIGNED8 -> 1
    [] type = CO_DEFTYPE_UNSIGNED16 -> 2
    [] type = CO_DEFTYPE_UNSIGNED32 -> 4
    [] OTHER -> 1

\* The types of lely/co/def/basic.def, time.def and array.def.
BasicTypes ==
  {CO_DEFTYPE.BOOLEAN, CO_DEFTYPE.INTEGER8, CO_DEFTYPE.INTEGER16,
   CO_DEFTYPE.INTEGER32, CO_DEFTYPE.UNSIGNED8, CO_DEFTYPE.UNSIGNED16,
   CO_DEFTYPE.UNSIGNED32, CO_DEFTYPE.REAL32, CO_DEFTYPE.INTEGER24,
   CO_DEFTYPE.REAL64, CO_DEFTYPE.INTEGER40, CO_DEFTYPE.INTEGER48,
   CO_DEFTYPE.INTEGER56, CO_DEFTYPE.INTEGER64, CO_DEFTYPE.UNSIGNED24,
   CO_DEFTYPE.UNSIGNED40, CO_DEFTYPE.UNSIGNED48, CO_DEFTYPE.UNSIGNED56,
   CO_DEFTYPE.UNSIGNED64}
TimeTypes == {CO_DEFTYPE.TIME_OF_DAY, CO_DEFTYPE.TIME_DIFF}
ArrayTypes ==
  {CO_DEFTYPE.VISIBLE_STRING, CO_DEFTYPE.OCTET_STRING,
   CO_DEFTYPE.UNICODE_STRING, CO_DEFTYPE["DOMAIN"]}

\* co_type_is_basic() counting the time types as basic.
co_type_is_basic_time(type) == type \in BasicTypes \cup TimeTypes

\* co_type_is_basic(): whether the type code is one of basic.def.
co_type_is_basic(type) == type \in BasicTypes

\* co_type_is_array(): whether the type code is one of array.def.
co_type_is_array(type) == type \in ArrayTypes

\* ALIGN(x, a): x rounded up to the next multiple of a.
ALIGN(x, a) == ((x + a - 1) \div a) * a

\* The host (little-endian) representation of the unsigned number n in
\* size bytes; the number is truncated to the width.
RECURSIVE ToBytes(_, _)
ToBytes(n, size) ==
  IF size = 0 THEN <<>> ELSE <<n % 256>> \o ToBytes(n \div 256, size - 1)

\* The unsigned number a little-endian byte sequence stands for.
RECURSIVE FromBytes(_)
FromBytes(b) ==
  IF b = <<>> THEN 0 ELSE b[1] + 256 * FromBytes(Tail(b))

Zeros(n) == [i \in 1 .. n |-> 0]

\* x & m for a mask m that is a power of two: is the bit set in x.
HasBit(x, m) == (x \div m) % 2 = 1

\* co_val_init(): the zero value of the type.
co_val_init(type) == Zeros(co_type_sizeof(type))

\* co_val_init_min(): the smallest value of an unsigned type.
co_val_init_min(type) == Zeros(co_type_sizeof(type))

\* co_val_init_max(): the largest value of an unsigned type.
co_val_init_max(type) == [i \in 1 .. co_type_sizeof(type) |-> 255]

\* co_val_cmp() for the unsigned basic types: the sign of a - b, decided
\* from the most significant byte down.
RECURSIVE CmpFrom(_, _, _)
CmpFrom(a, b, i) ==
  IF i = 0 THEN 0
  ELSE IF a[i] > b[i] THEN 1
  ELSE IF a[i] < b[i] THEN -1
  ELSE CmpFrom(a, b, i - 1)

co_val_cmp(type, a, b) == CmpFrom(a, b, co_type_sizeof(type))

\* The bytes of a heap region from offset off (0-based), n of them.
ReadBytes(bytes, off, n) == [i \in 1 .. n |-> bytes[off + i]]

\* The region with n bytes stored at offset off.
WriteBytes(bytes, off, val) ==
  [i \in 1 .. Len(bytes) |->
    IF i > off /\ i <= off + Len(val) THEN val[i - off] ELSE bytes[i]]

\* ------------------------------------------------------------ state

VARIABLES
  obj,    \* object handle -> struct __co_obj
  sub,    \* sub-object handle -> struct __co_sub
  heap,   \* region -> bytes of an allocated value region (<<>> when free)
  time,   \* struct __co_time of the TIME service
  sent,   \* the CAN frame last passed to can_net_send()
  last,   \* the last call made and what it returned
  nfail,  \* the number of calls of calloc() that have failed
  node,   \* the NMT state and the SDO server of the CANopen slave
  handle, \* struct io_handle and the threads that refer to it
  flag    \* an atomic_flag and the threads that spin on it

vars == <<obj, sub, heap, time, sent, last, nfail, node, handle, flag>>

\* A pointer into a value region; the null pointer has region NULL.
MkPtr(r, off) == [r |-> r, off |-> off]
NullPtr == MkPtr(NULL, 0)

\* A handle that names no allocated struct.
FreeObj == [alive |-> FALSE, idx |-> 0, tree |-> {}, val |-> NULL, size |-> 0]
FreeSub ==
  [alive |-> FALSE, obj |-> NULL, subidx |-> 0, type |-> 0, min |-> <<>>,
   max |-> <<>>, def |-> <<>>, val |-> NullPtr, access |-> 0, flags |-> 0,
   dn_ind |-> "none", up_ind |-> "none"]

\* What can_recv_create() and can_timer_create() do when all goes well.
AllOk == [recv |-> TRUE, timer |-> TRUE]

\* The state as the functions below pass it on: the dictionary, the TIME
\* service a download indication was registered with, the error number a
\* call sets ("" when it sets none) and whether the allocations made
\* during the call succeed.
Dict ==
  [obj |-> obj, sub |-> sub, heap |-> heap, err |-> "", time |-> time,
   ok |-> AllOk]

\* __co_obj_init()
co_obj_init(idx) ==
  [alive |-> TRUE, idx |-> idx, tree |-> {}, val |-> NULL, size |-> 0]

\* __co_sub_init()
co_sub_init(subidx, type) ==
  [alive |-> TRUE, obj |-> NULL, subidx |-> subidx, type |-> type,
   min |-> co_val_init_min(type), max |-> co_val_init_max(type),
   def |-> co_val_init(type), val |-> NullPtr, access |-> CO_ACCESS_RW,
   flags |-> 0, dn_ind |-> "default_sub_dn_ind",
   up_ind |-> "default_sub_up_ind"]

\* rbtree_find(&obj->tree, &subidx): the sub-objects of the tree with the key.
rbtree_find(D, o, subidx) == {s \in D.obj[o].tree : D.sub[s].subidx = subidx}

\* rbtree_foreach(&obj->tree, node): the nodes in ascending key order.
RECURSIVE TreeSeq(_, _)
TreeSeq(subS, T) ==
  IF T = {} THEN <<>>
  ELSE LET m == CHOOSE s \in T : \A t \in T : subS[s].subidx <= subS[t].subidx
       IN  <<m>> \o TreeSeq(subS, T \ {m})

PosOf(seq, s) == CHOOSE i \in 1 .. Len(seq) : seq[i] = s

\* The offset of the sub-object after size bytes are laid out.
SubOffset(size, type) == ALIGN(size, co_type_alignof(type))

\* The offsets co_obj_update() gives the sub-objects seq[i..], size bytes
\* being laid out before them.
RECURSIVE Offsets(_, _, _, _)
Offsets(subS, seq, i, size) ==
  IF i > Len(seq) THEN <<>>
  ELSE LET type == subS[seq[i]].type
           off == SubOffset(size, type)
       IN  <<off>> \o Offsets(subS, seq, i + 1, off + co_type_sizeof(type))

\* The total size of the region, computed as the offsets are.
RECURSIVE TotalSize(_, _, _, _)
TotalSize(subS, seq, i, size) ==
  IF i > Len(seq) THEN size
  ELSE LET type == subS[seq[i]].type
       IN  TotalSize(subS, seq, i + 1,
                     SubOffset(size, type) + co_type_sizeof(type))

\* The bytes of a region of n bytes as malloc() may leave them.
NewRegion_dirty(n) == [i \in 1 .. n |-> 1]

\* The bytes of a region of n bytes as calloc() hands it out.
NewRegion(n) == Zeros(n)

\* calloc(): the region the allocator hands out.
calloc(heapS) == CHOOSE r \in DOMAIN heapS :
  heapS[r] = <<>> /\ \A q \in DOMAIN heapS : heapS[q] = <<>> => r <= q

\* free()
free(heapS, r) == IF r = NULL THEN heapS ELSE [heapS EXCEPT ![r] = <<>>]

\* The slot of the new region after the old value (at src) is moved in.
MoveOld_skip(heapS, bytes, off, src, type) == bytes

MoveOld(heapS, bytes, off, src, type) ==
  IF src.r # NULL
  THEN WriteBytes(bytes, off,
                  ReadBytes(heapS[src.r], src.off, co_type_sizeof(type)))
  ELSE bytes

\* The new region after the second loop of co_obj_update() has run over
\* seq[i..].
RECURSIVE MoveAll(_, _, _, _, _)
MoveAll(D, seq, offs, i, bytes) ==
  IF i > Len(seq) THEN bytes
  ELSE LET s == seq[i]
       IN  MoveAll(D, seq, offs, i + 1,
                   MoveOld(D.heap, bytes, offs[i], D.sub[s].val,
                           D.sub[s].type))

\* co_obj_update(); ok is whether calloc() succeeds.
co_obj_update(D, o, ok) ==
  LET seq == TreeSeq(D.sub, D.obj[o].tree)
      size == TotalSize(D.sub, seq, 1, 0)
      offs == Offsets(D.sub, seq, 1, 0)
  IN  IF size > 0 /\ ~ok
      THEN [D EXCEPT !.err = "ENOMEM"]
      ELSE LET val == IF size > 0 THEN calloc(D.heap) ELSE NULL
               bytes == MoveAll(D, seq, offs, 1, NewRegion(size))
               heap1 == IF size > 0 THEN [D.heap EXCEPT ![val] = bytes]
                        ELSE D.heap
           IN  [D EXCEPT
                 !.sub = [s \in DOMAIN D.sub |->
                           IF s \in D.obj[o].tree
                           THEN [D.sub[s] EXCEPT
                                  !.val = MkPtr(val, offs[PosOf(seq, s)])]
                           ELSE D.sub[s]],
                 !.heap = free(heap1, D.obj[o].val),
                 !.obj = [D.obj EXCEPT ![o].val = val, ![o].size = size]]

\* co_obj_insert_sub() without the search for the sub-index.
co_obj_insert_sub_nofind(D, o, s, ok) ==
  IF D.sub[s].obj # NULL /\ D.sub[s].obj # o THEN [D |-> D, ret |-> -1]
  ELSE IF D.sub[s].obj = o THEN [D |-> D, ret |-> 0]
  ELSE LET D1 == [D EXCEPT !.sub[s].obj = o,
                           !.obj[o].tree = D.obj[o].tree \cup {s}]
       IN  [D |-> co_obj_update(D1, o, ok), ret |-> 0]

\* co_obj_insert_sub(): the new dictionary and the return value.
co_obj_insert_sub(D, o, s, ok) ==
  IF D.sub[s].obj # NULL /\ D.sub[s].obj # o THEN [D |-> D, ret |-> -1]
  ELSE IF D.sub[s].obj = o THEN [D |-> D, ret |-> 0]
  ELSE IF rbtree_find(D, o, D.sub[s].subidx) # {} THEN [D |-> D, ret |-> -1]
  ELSE LET D1 == [D EXCEPT !.sub[s].obj = o,
                           !.obj[o].tree = D.obj[o].tree \cup {s}]
       IN  [D |-> co_obj_update(D1, o, ok), ret |-> 0]

\* co_obj_remove_sub()
co_obj_remove_sub(D, o, s, ok) ==
  IF D.sub[s].obj # o THEN [D |-> D, ret |-> -1]
  ELSE LET D1 == [D EXCEPT !.obj[o].tree = D.obj[o].tree \ {s},
                           !.sub[s].obj = NULL,
                           !.sub[s].val = NullPtr]
       IN  [D |-> co_obj_update(D1, o, ok), ret |-> 0]

\* A sub-object freed without being removed from its object.
co_sub_destroy_noremove(D, s, ok) == [D EXCEPT !.sub[s] = FreeSub]

\* __co_sub_fini() and __co_sub_free()
co_sub_destroy(D, s, ok) ==
  LET D1 == IF D.sub[s].obj # NULL
            THEN co_obj_remove_sub(D, D.sub[s].obj, s, ok).D
            ELSE D
  IN  [D1 EXCEPT !.sub[s] = FreeSub]

\* co_obj_clear(): destroys the sub-objects seq[i..], then frees the region.
RECURSIVE DestroyAll(_, _, _, _)
DestroyAll(D, seq, i, ok) ==
  IF i > Len(seq) THEN D
  ELSE DestroyAll(co_sub_destroy(D, seq[i], ok), seq, i + 1, ok)

co_obj_clear(D, o, ok) ==
  LET D1 == DestroyAll(D, TreeSeq(D.sub, D.obj[o].tree), 1, ok)
  IN  [D1 EXCEPT !.heap = free(D1.heap, D1.obj[o].val), !.obj[o].val = NULL]

\* __co_obj_fini() and __co_obj_free()
co_obj_destroy(D, o, ok) ==
  [co_obj_clear(D, o, ok) EXCEPT !.obj[o] = FreeObj]

\* co_sub_get_val(): the bytes the sub-object's value pointer refers to.
\* <<>> stands for the null pointer it returns when there is no value.
SubVal(subS, heapS, s) ==
  IF subS[s].val.r = NULL THEN <<>>
  ELSE ReadBytes(heapS[subS[s].val.r], subS[s].val.off,
                 co_type_sizeof(subS[s].type))

\* co_val_make() for a basic type: the n bytes at ptr become the value;
\* the result is the value stored and the number of bytes taken.
co_val_make(type, old, ptr) ==
  IF Len(ptr) # co_type_sizeof(type) THEN [val |-> old, n |-> 0]
  ELSE [val |-> ptr, n |-> Len(ptr)]

\* co_sub_set_val() making the value at the start of the region.
co_sub_set_val_at0(D, s, ptr) ==
  LET p == D.sub[s].val
      m == co_val_make(D.sub[s].type, SubVal(D.sub, D.heap, s), ptr)
  IN  [D |-> [D EXCEPT !.heap[p.r] = WriteBytes(D.heap[p.r], 0, m.val)],
       ret |-> m.n]

\* co_sub_set_val(): the value is made in place at sub->val.
co_sub_set_val(D, s, ptr) ==
  LET p == D.sub[s].val
      m == co_val_make(D.sub[s].type, SubVal(D.sub, D.heap, s), ptr)
  IN  [D |-> [D EXCEPT !.heap[p.r] = WriteBytes(D.heap[p.r], p.off, m.val)],
       ret |-> m.n]

\* co_sub_set_val_u8(), co_sub_set_val_u16(), co_sub_set_val_u32(): the
\* typed setters, c being the number passed.
co_sub_set_val_typed(D, s, type, c) ==
  IF D.sub[s].type # type THEN [D |-> [D EXCEPT !.err = "EINVAL"], ret |-> 0]
  ELSE co_sub_set_val(D, s, ToBytes(c, co_type_sizeof(type)))

\* co_sub_set_val_u32(), c being the host bytes of the number passed.
co_sub_set_val_u32(D, s, c) ==
  IF D.sub[s].type # CO_DEFTYPE_UNSIGNED32
  THEN [D |-> [D EXCEPT !.err = "EINVAL"], ret |-> 0]
  ELSE co_sub_set_val(D, s, c)

\* co_sub_set_def()
co_sub_set_def(D, s, ptr) ==
  LET m == co_val_make(D.sub[s].type, D.sub[s].def, ptr)
  IN  [D |-> [D EXCEPT !.sub[s].def = m.val], ret |-> m.n]

\* ------------------------------------------------------------ calls

\* No CAN frame.
NoMsg == [id |-> 0, flags |-> 0, len |-> 0, data |-> <<>>]

\* The record of a call: the function, its object and sub-object arguments,
\* the bytes passed as the value, the return value, the error number set,
\* the indication function invoked, what that function returned, the CAN
\* frame or the time passed to a callback of the TIME service, and the
\* times passed to the user's TIME indication, one for each invocation, and
\* the frames the NMT or the SDO service sent during the call.
CallInd(op, o, s, arg, ret, err, ind) ==
  [op |-> op, o |-> o, s |-> s, arg |-> arg, ret |-> ret, err |-> err,
   ind |-> ind, indret |-> 0, msg |-> NoMsg, tp |-> [sec |-> 0, nsec |-> 0],
   inds |-> <<>>, out |-> <<>>]

Call(op, o, s, ret, err) == CallInd(op, o, s, <<>>, ret, err, "")

\* The dictionary after a call, and the record of the call.
Returns(D, op, o, s, ret) ==
  /\ obj' = D.obj
  /\ sub' = D.sub
  /\ heap' = D.heap
  /\ last' = Call(op, o, s, ret, D.err)
  /\ nfail' = IF D.err = "ENOMEM" THEN nfail + 1 ELSE nfail
  /\ UNCHANGED <<node, handle, flag>>

\* What calloc() may do in the next call: succeed (TRUE) or fail.
Calloc == IF nfail < MaxFail THEN BOOLEAN ELSE {TRUE}

\* The index of the object a handle is created with.
IdxOf(o) == 8192 + o

ObjDestroy(o) ==
  /\ obj[o].alive
  /\ \E ok \in Calloc :
       Returns(co_obj_destroy(Dict, o, ok), "co_obj_destroy", o, NULL, 0)
  /\ UNCHANGED <<time, sent>>

\* __co_sub_alloc() hands out the lowest free handle.
SubCreate(s, subidx, type) ==
  /\ ~sub[s].alive
  /\ \A q \in Subs : ~sub[q].alive => s <= q
  /\ Returns([Dict EXCEPT !.sub[s] = co_sub_init(subidx, type)],
             "co_sub_create", NULL, s, 0)
  /\ UNCHANGED <<time, sent>>

SubDestroy(s) ==
  /\ sub[s].alive
  /\ \E ok \in Calloc :
       Returns(co_sub_destroy(Dict, s, ok), "co_sub_destroy", sub[s].obj, s,
               0)
  /\ UNCHANGED <<time, sent>>

ObjInsertSub(o, s) ==
  /\ obj[o].alive
  /\ sub[s].alive
  /\ \E ok \in Calloc :
       LET R == co_obj_insert_sub(Dict, o, s, ok)
       IN  Returns(R.D, "co_obj_insert_sub", o, s, R.ret)
  /\ UNCHANGED <<time, sent>>

ObjRemoveSub(o, s) ==
  /\ obj[o].alive
  /\ sub[s].alive
  /\ \E ok \in Calloc :
       LET R == co_obj_remove_sub(Dict, o, s, ok)
       IN  Returns(R.D, "co_obj_remove_sub", o, s, R.ret)
  /\ UNCHANGED <<time, sent>>

SubSetDef(s, c) ==
  /\ sub[s].alive
  /\ LET R == co_sub_set_def(Dict, s, ToBytes(c, co_type_sizeof(sub[s].type)))
     IN  Returns(R.D, "co_sub_set_def", sub[s].obj, s, R.ret)
  /\ UNCHANGED <<time, sent>>

\* The typed setter of the sub-object's own type or of another type; a
\* sub-object without a value slot cannot be written.
SubSetVal(s, type, c) ==
  /\ sub[s].alive
  /\ sub[s].val.r # NULL
  /\ LET R == co_sub_set_val_typed(Dict, s, type, c)
     IN  /\ obj' = R.D.obj
         /\ sub' = R.D.sub
         /\ heap' = R.D.heap
         /\ last' = CallInd("co_sub_set_val", sub[s].obj, s,
                            ToBytes(c, co_type_sizeof(type)), R.ret, R.D.err,
                            "")
  /\ UNCHANGED <<time, sent, nfail, node, handle, flag>>

\* ------------------------------------------------------------ the slave

\* The node-ID of the slave.
NodeId == 5

\* The largest number of bytes an SDO download assembles.
MaxBuf == 3

\* The transfer slot of an SDO server with no transfer in progress: the
\* state, the toggle bit expected next, the bytes assembled, the size the
\* client indicated (-1 if none), the target, the last segment accepted,
\* whether the timeout timer is armed, and the value of the target when the
\* transfer began.
NoSdo ==
  [state |-> "Idle", toggle |-> 0, buf |-> <<>>, size |-> -1, idx |-> 0,
   subidx |-> 0, lastseg |-> <<>>, timer |-> FALSE, pre |-> <<>>]

\* No slave: the NMT state, the services that exist, the CAN-IDs receivers
\* are registered for, and the transfer slot of the SDO server.
NoNode == [nmt |-> "", srv |-> {}, recv |-> {}, sdo |-> NoSdo]

\* ------------------------------------------------------------ threads

\* The number of threads.
NThr == 2

\* The number of calls of io_handle_acquire() made in a behaviour.
MaxAcq == 3

Threads == 1 .. NThr

\* A handle as io_handle_alloc() returns it: the reference count is zero.
\* destroyed counts the calls of io_handle_destroy(), acquired those of
\* io_handle_acquire(), late says that one of these found the count at
\* zero after an earlier one; for each thread, held is the number of
\* references it has acquired and not released and pc is "destroy" between
\* its decrement to zero and its call of io_handle_destroy().
NoHandle ==
  [ref |-> 0, destroyed |-> 0, acquired |-> 0, late |-> FALSE,
   thr |-> [t \in Threads |-> [pc |-> "", held |-> 0]]]

\* ATOMIC_FLAG_INIT: the flag is clear; no thread has acquired it.
NoFlag == [value |-> FALSE, thr |-> [t \in Threads |-> "out"]]

\* ------------------------------------------------------------ the dictionary

\* No TIME service.
NoTime ==
  [alive |-> FALSE, cobid |-> <<>>, sub_1013_00 |-> NULL, recv |-> FALSE,
   recv_id |-> 0, recv_flags |-> 0, timer |-> FALSE, running |-> FALSE,
   start |-> [sec |-> 0, nsec |-> 0], ind |-> FALSE]

Init ==
  /\ obj = [o \in Objs |-> co_obj_init(IdxOf(o))]
  /\ sub = [s \in Subs |-> FreeSub]
  /\ heap = [r \in Regions |-> <<>>]
  /\ time = NoTime
  /\ sent = NoMsg
  /\ last = Call("init", NULL, NULL, 0, "")
  /\ nfail = 0
  /\ node = NoNode
  /\ handle = NoHandle
  /\ flag = NoFlag

Next ==
  \/ \E o \in Objs : ObjDestroy(o)
  \/ \E s \in Subs, subidx \in SubIdxs, type \in Types :
       SubCreate(s, subidx, type)
  \/ \E s \in Subs : SubDestroy(s)
  \/ \E o \in Objs, s \in Subs : ObjInsertSub(o, s)
  \/ \E o \in Objs, s \in Subs : ObjRemoveSub(o, s)
  \/ \E s \in Subs, c \in 0 .. MaxVal : SubSetDef(s, c)
  \/ \E s \in Subs, c \in 0 .. MaxVal : SubSetVal(s, sub[s].type, c)

Spec == Init /\ [][Next]_vars

\* ------------------------------------------------------------ type codes

\* The type codes the predicates are applied to.
TypeCodes == (0 .. MaxType) \cup {INVALID_TYPE}

\* The int a C predicate returns.
BoolInt(b) == IF b THEN 1 ELSE 0

TypeIsBasic(type) ==
  /\ last' = CallInd("co_type_is_basic", NULL, NULL, ToBytes(type, 2),
                     BoolInt(co_type_is_basic(type)), "", "")
  /\ UNCHANGED <<obj, sub, heap, time, sent, nfail, node, handle, flag>>

TypeIsArray(type) ==
  /\ last' = CallInd("co_type_is_array", NULL, NULL, ToBytes(type, 2),
                     BoolInt(co_type_is_array(type)), "", "")
  /\ UNCHANGED <<obj, sub, heap, time, sent, nfail, node, handle, flag>>

NextType ==
  \/ \E type \in TypeCodes : TypeIsBasic(type)
  \/ \E type \in TypeCodes : TypeIsArray(type)

SpecType == Init /\ [][NextType]_vars

\* ------------------------------------------------------------ write path

\* co_sub_set_min()
co_sub_set_min(D, s, ptr) ==
  LET m == co_val_make(D.sub[s].type, D.sub[s].min, ptr)
  IN  [D |-> [D EXCEPT !.sub[s].min = m.val], ret |-> m.n]

\* co_sub_set_max()
co_sub_set_max(D, s, ptr) ==
  LET m == co_val_make(D.sub[s].type, D.sub[s].max, ptr)
  IN  [D |-> [D EXCEPT !.sub[s].max = m.val], ret |-> m.n]

\* co_sub_set_access()
co_sub_set_access(D, s, access) ==
  IF access \in {CO_ACCESS_RO, CO_ACCESS_WO, CO_ACCESS_RW, CO_ACCESS_RWR,
                 CO_ACCESS_RWW, CO_ACCESS_CONST}
  THEN [D |-> [D EXCEPT !.sub[s].access = access], ret |-> 0]
  ELSE [D |-> [D EXCEPT !.err = "EINVAL"], ret |-> -1]

\* co_sub_set_flags()
co_sub_set_flags(D, s, flags) == [D EXCEPT !.sub[s].flags = flags]

\* co_sub_set_dn_ind(); the indication "" stands for a null pointer.
co_sub_set_dn_ind(D, s, ind) ==
  [D EXCEPT !.sub[s].dn_ind = IF ind # "" THEN ind ELSE "default_sub_dn_ind"]

\* An SDO download request holding all the bytes of the value.
Req(buf) == [null |-> FALSE, buf |-> buf]
\* The null pointer passed as the request.
NullReq == [null |-> TRUE, buf |-> <<>>]

\* co_val_read() for a basic type: the wire bytes are little-endian, as the
\* host's are, the least significant byte first.
co_val_read(type, buf) == [i \in 1 .. co_type_sizeof(type) |-> buf[i]]

\* co_sdo_req_dn_val() for a basic type: the value is read from the request
\* and its size checked against the type.
co_sdo_req_dn_val(req, type) ==
  IF Len(req.buf) < co_type_sizeof(type)
  THEN [ret |-> -1, ac |-> CO_SDO_AC_TYPE_LEN_LO, val |-> <<>>]
  ELSE IF Len(req.buf) > co_type_sizeof(type)
  THEN [ret |-> -1, ac |-> CO_SDO_AC_TYPE_LEN_HI, val |-> <<>>]
  ELSE [ret |-> 0, ac |-> 0, val |-> co_val_read(type, req.buf)]

\* co_sub_chk_val() with the comparisons with the limits exchanged.
co_sub_chk_val_swapped(D, s, type, val) ==
  LET x == D.sub[s]
  IN  IF ~co_type_is_basic(x.type) THEN 0
      ELSE IF x.type # type THEN CO_SDO_AC_TYPE_LEN
      ELSE IF co_val_cmp(x.type, x.min, x.max) > 0 THEN CO_SDO_AC_PARAM_RANGE
      ELSE IF co_val_cmp(x.type, val, x.min) < 0 THEN CO_SDO_AC_PARAM_HI
      ELSE IF co_val_cmp(x.type, val, x.max) > 0 THEN CO_SDO_AC_PARAM_LO
      ELSE 0

\* co_sub_chk_val() without the check for inverted limits.
co_sub_chk_val_norange(D, s, type, val) ==
  LET x == D.sub[s]
  IN  IF ~co_type_is_basic(x.type) THEN 0
      ELSE IF x.type # type THEN CO_SDO_AC_TYPE_LEN
      ELSE IF co_val_cmp(x.type, val, x.max) > 0 THEN CO_SDO_AC_PARAM_HI
      ELSE IF co_val_cmp(x.type, val, x.min) < 0 THEN CO_SDO_AC_PARAM_LO
      ELSE 0

\* co_sub_chk_val() checking the limits before the type.
co_sub_chk_val_typelast(D, s, type, val) ==
  LET x == D.sub[s]
  IN  IF ~co_type_is_basic(x.type) THEN 0
      ELSE IF co_val_cmp(x.type, x.min, x.max) > 0 THEN CO_SDO_AC_PARAM_RANGE
      ELSE IF x.type # type THEN CO_SDO_AC_TYPE_LEN
      ELSE IF co_val_cmp(x.type, val, x.max) > 0 THEN CO_SDO_AC_PARAM_HI
      ELSE IF co_val_cmp(x.type, val, x.min) < 0 THEN CO_SDO_AC_PARAM_LO
      ELSE 0

\* co_sub_chk_val(): the abort code for the value, 0 if it is accepted.
co_sub_chk_val(D, s, type, val) ==
  LET x == D.sub[s]
  IN  IF ~co_type_is_basic(x.type) THEN 0
      ELSE IF x.type # type THEN CO_SDO_AC_TYPE_LEN
      ELSE IF co_val_cmp(x.type, x.min, x.max) > 0 THEN CO_SDO_AC_PARAM_RANGE
      ELSE IF co_val_cmp(x.type, val, x.max) > 0 THEN CO_SDO_AC_PARAM_HI
      ELSE IF co_val_cmp(x.type, val, x.min) < 0 THEN CO_SDO_AC_PARAM_LO
      ELSE 0

\* co_sub_dn() storing the value whatever the flags.
co_sub_dn_always(D, s, val) ==
  LET p == D.sub[s].val
  IN  [D EXCEPT !.heap[p.r] = WriteBytes(D.heap[p.r], p.off, val)]

\* co_sub_dn(): the value is moved to sub->val unless the sub-object
\* refuses writes on download; the result is 0 either way.
co_sub_dn(D, s, val) ==
  IF ~HasBit(D.sub[s].flags, CO_OBJ_FLAGS_WRITE)
  THEN LET p == D.sub[s].val
       IN  [D EXCEPT !.heap[p.r] = WriteBytes(D.heap[p.r], p.off, val)]
  ELSE D

\* The value co_sub_dn() returns: -1 if co_val_move() is called and moves
\* no byte, else 0.
co_sub_dn_ret(D, s) ==
  IF ~HasBit(D.sub[s].flags, CO_OBJ_FLAGS_WRITE)
     /\ co_type_sizeof(D.sub[s].type) = 0
  THEN -1
  ELSE 0

\* Whether co_sub_on_dn() accepts a value the check gave abort code ac.
Accepted_inrange(ac) == ac \notin {CO_SDO_AC_PARAM_HI, CO_SDO_AC_PARAM_LO}

Accepted(ac) == ac = 0

\* co_sub_on_dn() storing the value before it is checked.
co_sub_on_dn_store(D, s, req) ==
  LET type == D.sub[s].type
      r == co_sdo_req_dn_val(req, type)
  IN  IF r.ret = -1 THEN [D |-> D, ac |-> r.ac]
      ELSE [D |-> co_sub_dn(D, s, r.val),
            ac |-> co_sub_chk_val(D, s, type, r.val)]

\* co_sub_on_dn(): the new dictionary and the abort code.
co_sub_on_dn(D, s, req) ==
  LET type == D.sub[s].type
      r == co_sdo_req_dn_val(req, type)
  IN  IF r.ret = -1 THEN [D |-> D, ac |-> r.ac]
      ELSE LET ac == co_sub_chk_val(D, s, type, r.val)
           IN  [D |-> IF Accepted(ac) THEN co_sub_dn(D, s, r.val) ELSE D,
                ac |-> ac]

\* ------------------------------------------------------------ TIME service

RECURSIVE Pow2(_)
Pow2(n) == IF n = 0 THEN 1 ELSE 2 * Pow2(n - 1)

\* Whether bit k of the 32-bit value held in bytes is set.
TestBit(bytes, k) == HasBit(bytes[(k \div 8) + 1], Pow2(k % 8))

\* bytes & mask, for the mask of the n lowest bits.
MaskLow(bytes, n) ==
  [i \in 1 .. Len(bytes) |->
    IF 8 * i <= n THEN bytes[i]
    ELSE IF 8 * (i - 1) >= n THEN 0
    ELSE bytes[i] % Pow2(n - 8 * (i - 1))]

\* The division of C, which truncates toward zero.
CDiv(a, b) == IF a >= 0 THEN a \div b ELSE -((-a) \div b)

\* timespec_diff_usec(): (t1 - t2) in microseconds, a 64-bit number of
\* which the caller keeps the 32 low bits (the cast to co_unsigned32_t).
\* The result is these 32 bits as host bytes, computed in 16-bit limbs:
\* 1000000 = 15 * 65536 + 16960.
timespec_diff_usec(t1, t2) ==
  LET dsec == t1.sec - t2.sec
      usec == CDiv(t1.nsec - t2.nsec, 1000)
      al == dsec % 65536
      ah == (dsec \div 65536) % 65536
      lo == al * 16960 + (usec % 65536)
      hi == al * 15 + ah * 16960 + ((usec \div 65536) % 65536) + (lo \div 65536)
  IN  ToBytes(lo % 65536, 2) \o ToBytes(hi % 65536, 2)

\* The remainder of C, which has the sign of the dividend.
CMod(a, b) == a - b * CDiv(a, b)

\* co_time_diff_set() keeping whole seconds only.
co_time_diff_set_sec(tp) ==
  [ms |-> CMod(tp.sec, 86400) * 1000,
   days |-> CDiv(tp.sec, 86400) % 65536]

\* co_time_diff_set(): milliseconds since midnight and the day count (cast
\* to co_unsigned16_t).
co_time_diff_set(tp) ==
  [ms |-> CMod(tp.sec, 86400) * 1000 + CDiv(tp.nsec, 1000000),
   days |-> CDiv(tp.sec, 86400) % 65536]

\* co_time_of_day_set(): 1984-01-01 is 14 years and 3 leap days after the
\* Unix epoch.
co_time_of_day_set(tp) ==
  co_time_diff_set([sec |-> tp.sec - (14 * 365 + 3) * 24 * 60 * 60,
                    nsec |-> tp.nsec])

\* co_obj_set_dn_ind()
co_obj_set_dn_ind(D, o, ind) ==
  [D EXCEPT !.sub = [s \in DOMAIN D.sub |->
                      IF s \in D.obj[o].tree
                      THEN co_sub_set_dn_ind(D, s, ind).sub[s]
                      ELSE D.sub[s]]]

\* co_dev_find_obj(): the object of the device with the index, or NULL.
co_dev_find_obj(D, idx) ==
  IF \E o \in DOMAIN D.obj : D.obj[o].alive /\ D.obj[o].idx = idx
  THEN CHOOSE o \in DOMAIN D.obj : D.obj[o].alive /\ D.obj[o].idx = idx
  ELSE NULL

\* co_obj_find_sub()
co_obj_find_sub(D, o, subidx) ==
  IF rbtree_find(D, o, subidx) # {}
  THEN CHOOSE s \in rbtree_find(D, o, subidx) : TRUE
  ELSE NULL

\* co_dev_find_sub()
co_dev_find_sub(D, idx, subidx) ==
  IF co_dev_find_obj(D, idx) = NULL THEN NULL
  ELSE co_obj_find_sub(D, co_dev_find_obj(D, idx), subidx)

\* The CAN-ID of a TIME COB-ID cut to 11 bits whatever the frame bit is.
TimeCanId_bid(cobid) ==
  [id |-> FromBytes(MaskLow(cobid, CAN_MASK_BID)), flags |-> 0]

\* The CAN-ID and the flags of the frames of a TIME COB-ID.
TimeCanId(cobid) ==
  IF TestBit(cobid, CO_TIME_COBID_FRAME)
  THEN [id |-> FromBytes(MaskLow(cobid, CAN_MASK_EID)), flags |-> CAN_FLAG_IDE]
  ELSE [id |-> FromBytes(MaskLow(cobid, CAN_MASK_BID)), flags |-> 0]

\* co_time_update(): the receiver and the timer follow the COB-ID; ok says
\* whether can_recv_create() and can_timer_create() succeed.  The result is
\* the service and the return value.
co_time_update(T, ok) ==
  LET consumer == TestBit(T.cobid, CO_TIME_COBID_CONSUMER)
      producer == TestBit(T.cobid, CO_TIME_COBID_PRODUCER)
      T1 == IF consumer
            THEN [T EXCEPT !.recv = TRUE,
                           !.recv_id = TimeCanId(T.cobid).id,
                           !.recv_flags = TimeCanId(T.cobid).flags]
            ELSE [T EXCEPT !.recv = FALSE, !.recv_id = 0, !.recv_flags = 0]
  IN  IF consumer /\ ~T.recv /\ ~ok.recv THEN [T |-> T, ret |-> -1]
      ELSE IF producer /\ ~T1.timer /\ ~ok.timer THEN [T |-> T1, ret |-> -1]
      ELSE IF producer THEN [T |-> [T1 EXCEPT !.timer = TRUE], ret |-> 0]
      ELSE [T |-> [T1 EXCEPT !.timer = FALSE, !.running = FALSE], ret |-> 0]

\* co_obj_get_val_u32(): the value of the sub-object, 0 if there is none of
\* that type.
co_obj_get_val_u32(D, o, subidx) ==
  LET s == co_obj_find_sub(D, o, subidx)
  IN  IF s = NULL THEN Zeros(4)
      ELSE IF D.sub[s].type # CO_DEFTYPE_UNSIGNED32 THEN Zeros(4)
      ELSE IF D.sub[s].val.r = NULL THEN Zeros(4)
      ELSE SubVal(D.sub, D.heap, s)

\* __co_time_init(): object 1012 has index 4114 and object 1013 index
\* 4115; start is the time of the network.  The result is the dictionary,
\* the service and the pointer returned (NULL on failure).
co_time_init(D, start, ok) ==
  LET obj_1012 == co_dev_find_obj(D, 4114)
  IN  IF obj_1012 = NULL
      THEN [D |-> [D EXCEPT !.err = "ENOSYS"], T |-> NoTime, ret |-> NULL]
      ELSE LET T == [alive |-> TRUE,
                     cobid |-> co_obj_get_val_u32(D, obj_1012, 0),
                     sub_1013_00 |-> co_dev_find_sub(D, 4115, 0),
                     recv |-> FALSE, recv_id |-> 0, recv_flags |-> 0,
                     timer |-> FALSE, running |-> FALSE,
                     start |-> start, ind |-> FALSE]
               D1 == co_obj_set_dn_ind(D, obj_1012, "co_1012_dn_ind")
               U == co_time_update(T, ok)
           IN  IF U.ret = -1
               THEN [D |-> co_obj_set_dn_ind(D1, obj_1012, ""), T |-> U.T,
                     ret |-> NULL]
               ELSE [D |-> D1, T |-> U.T, ret |-> 1]

\* co_time_create(); okm says whether malloc() of the service succeeds.
\* When the initialization fails the struct is freed: what remains is the
\* receiver and the timer it pointed to.
co_time_create(D, start, ok, okm) ==
  IF ~okm THEN [D |-> [D EXCEPT !.err = "ENOMEM"], T |-> NoTime, ret |-> NULL]
  ELSE LET R == co_time_init(D, start, ok)
       IN  IF R.ret = NULL
           THEN [D |-> R.D,
                 T |-> [NoTime EXCEPT !.recv = R.T.recv,
                                      !.recv_id = R.T.recv_id,
                                      !.recv_flags = R.T.recv_flags,
                                      !.timer = R.T.timer],
                 ret |-> NULL]
           ELSE R

\* co_time_destroy() leaving the download indication of object 1012 in
\* place.
co_time_destroy_keepind(D) == [D |-> D, T |-> NoTime]

\* __co_time_fini() and __co_time_free()
co_time_destroy(D) ==
  [D |-> co_obj_set_dn_ind(D, co_dev_find_obj(D, 4114), ""), T |-> NoTime]

\* co_time_set_ind(); ind is whether the pointer is not null.
co_time_set_ind(T, ind) == [T EXCEPT !.ind = ind]

\* co_time_start()
co_time_start(T) == IF T.timer THEN [T EXCEPT !.running = TRUE] ELSE T

\* co_time_stop()
co_time_stop(T) == IF T.timer THEN [T EXCEPT !.running = FALSE] ELSE T

\* co_time_diff_get()
co_time_diff_get(td) ==
  [sec |-> td.days * 24 * 60 * 60 + td.ms \div 1000,
   nsec |-> (td.ms % 1000) * 1000000]

\* co_time_of_day_get() without the change of epoch.
co_time_of_day_get_noepoch(tod) == co_time_diff_get(tod)

\* co_time_of_day_get()
co_time_of_day_get(tod) ==
  [co_time_diff_get(tod) EXCEPT
    !.sec = co_time_diff_get(tod).sec + (14 * 365 + 3) * 24 * 60 * 60]

\* The TIME_OF_DAY value co_time_recv() reads from a frame.
MsgTod(msg) ==
  [ms |-> FromBytes(MaskLow(SubSeq(msg.data, 1, 4), 28)),
   days |-> FromBytes(SubSeq(msg.data, 5, 6))]

\* co_time_recv() without the mask of the milliseconds.
co_time_recv_nomask(T, msg) ==
  IF HasBit(msg.flags, CAN_FLAG_RTR) THEN <<>>
  ELSE IF HasBit(msg.flags, CAN_FLAG_EDL) THEN <<>>
  ELSE IF msg.len < 6 THEN <<>>
  ELSE IF T.ind
  THEN <<co_time_of_day_get([ms |-> FromBytes(SubSeq(msg.data, 1, 4)),
                             days |-> FromBytes(SubSeq(msg.data, 5, 6))])>>
  ELSE <<>>

\* co_time_recv() without the check for remote frames.
co_time_recv_nortr(T, msg) ==
  IF HasBit(msg.flags, CAN_FLAG_EDL) THEN <<>>
  ELSE IF msg.len < 6 THEN <<>>
  ELSE IF T.ind THEN <<co_time_of_day_get(MsgTod(msg))>>
  ELSE <<>>

\* co_time_recv(): the times the user's indication is invoked with, one for
\* each invocation.
co_time_recv(T, msg) ==
  IF HasBit(msg.flags, CAN_FLAG_RTR) THEN <<>>
  ELSE IF HasBit(msg.flags, CAN_FLAG_EDL) THEN <<>>
  ELSE IF msg.len < 6 THEN <<>>
  ELSE IF T.ind THEN <<co_time_of_day_get(MsgTod(msg))>>
  ELSE <<>>

\* co_time_timer() without the update of the time stamp 1013:00.
co_time_timer_nostamp(D, T, tp) ==
  [D |-> D,
   msg |-> [id |-> TimeCanId(T.cobid).id,
            flags |-> TimeCanId(T.cobid).flags,
            len |-> 6,
            data |-> ToBytes(co_time_of_day_set(tp).ms % 268435456, 4)
                       \o ToBytes(co_time_of_day_set(tp).days, 2)]]

\* co_time_timer(): the new dictionary and the frame sent.
co_time_timer(D, T, tp) ==
  LET D1 == IF T.sub_1013_00 # NULL
            THEN co_sub_set_val_u32(D, T.sub_1013_00,
                                    timespec_diff_usec(tp, T.start)).D
            ELSE D
      tod == co_time_of_day_set(tp)
  IN  [D |-> D1,
       msg |-> [id |-> TimeCanId(T.cobid).id,
                flags |-> TimeCanId(T.cobid).flags,
                len |-> 6,
                data |-> ToBytes(tod.ms % 268435456, 4)
                           \o ToBytes(tod.days, 2)]]

\* co_1012_dn_ind() letting the CAN-ID change while the service is and
\* remains active.
co_1012_dn_ind_nocanid(D, s, req) ==
  LET r == co_sdo_req_dn_val(req, D.sub[s].type)
      cobid == r.val
      cobid_old == SubVal(D.sub, D.heap, s)
  IN  IF r.ret = -1 THEN [D |-> D, ac |-> r.ac]
      ELSE IF D.sub[s].subidx # 0 THEN [D |-> D, ac |-> CO_SDO_AC_NO_SUB]
      ELSE IF cobid = cobid_old THEN [D |-> D, ac |-> 0]
      ELSE IF /\ ~TestBit(cobid, CO_TIME_COBID_FRAME)
              /\ MaskLow(cobid, CAN_MASK_EID) # MaskLow(cobid, CAN_MASK_BID)
      THEN [D |-> D, ac |-> CO_SDO_AC_PARAM_VAL]
      ELSE LET D1 == co_sub_dn([D EXCEPT !.time.cobid = cobid], s, r.val)
           IN  [D |-> [D1 EXCEPT !.time = co_time_update(D1.time, D.ok).T],
                ac |-> 0]

\* co_1012_dn_ind() without the check of the bits 11..28.
co_1012_dn_ind_noframe(D, s, req) ==
  LET r == co_sdo_req_dn_val(req, D.sub[s].type)
      cobid == r.val
      cobid_old == SubVal(D.sub, D.heap, s)
      active == \/ TestBit(cobid, CO_TIME_COBID_PRODUCER)
                \/ TestBit(cobid, CO_TIME_COBID_CONSUMER)
      active_old == \/ TestBit(cobid_old, CO_TIME_COBID_PRODUCER)
                    \/ TestBit(cobid_old, CO_TIME_COBID_CONSUMER)
  IN  IF r.ret = -1 THEN [D |-> D, ac |-> r.ac]
      ELSE IF D.sub[s].subidx # 0 THEN [D |-> D, ac |-> CO_SDO_AC_NO_SUB]
      ELSE IF cobid = cobid_old THEN [D |-> D, ac |-> 0]
      ELSE IF /\ active
              /\ active_old
              /\ MaskLow(cobid, CAN_MASK_EID) # MaskLow(cobid_old, CAN_MASK_EID)
      THEN [D |-> D, ac |-> CO_SDO_AC_PARAM_VAL]
      ELSE LET D1 == co_sub_dn([D EXCEPT !.time.cobid = cobid], s, r.val)
           IN  [D |-> [D1 EXCEPT !.time = co_time_update(D1.time, D.ok).T],
                ac |-> 0]

\* co_1012_dn_ind(): the download indication of object 1012.
co_1012_dn_ind(D, s, req) ==
  LET r == co_sdo_req_dn_val(req, D.sub[s].type)
      cobid == r.val
      cobid_old == SubVal(D.sub, D.heap, s)
      active == \/ TestBit(cobid, CO_TIME_COBID_PRODUCER)
                \/ TestBit(cobid, CO_TIME_COBID_CONSUMER)
      active_old == \/ TestBit(cobid_old, CO_TIME_COBID_PRODUCER)
                    \/ TestBit(cobid_old, CO_TIME_COBID_CONSUMER)
  IN  IF r.ret = -1 THEN [D |-> D, ac |-> r.ac]
      ELSE IF D.sub[s].subidx # 0 THEN [D |-> D, ac |-> CO_SDO_AC_NO_SUB]
      ELSE IF cobid = cobid_old THEN [D |-> D, ac |-> 0]
      ELSE IF /\ active
              /\ active_old
              /\ MaskLow(cobid, CAN_MASK_EID) # MaskLow(cobid_old, CAN_MASK_EID)
      THEN [D |-> D, ac |-> CO_SDO_AC_PARAM_VAL]
      ELSE IF /\ ~TestBit(cobid, CO_TIME_COBID_FRAME)
              /\ MaskLow(cobid, CAN_MASK_EID) # MaskLow(cobid, CAN_MASK_BID)
      THEN [D |-> D, ac |-> CO_SDO_AC_PARAM_VAL]
      ELSE LET D1 == co_sub_dn([D EXCEPT !.time.cobid = cobid], s, r.val)
           IN  [D |-> [D1 EXCEPT !.time = co_time_update(D1.time, D.ok).T],
                ac |-> 0]

\* The call sub->dn_ind(sub, req, sub->dn_data).  The application's
\* indication app_dn_ind returns the abort code appac and leaves the
\* dictionary alone.
CallDnInd(D, s, req, appac) ==
  CASE D.sub[s].dn_ind = "default_sub_dn_ind" -> co_sub_on_dn(D, s, req)
    [] D.sub[s].dn_ind = "co_1012_dn_ind" -> co_1012_dn_ind(D, s, req)
    [] D.sub[s].dn_ind = "app_dn_ind" -> [D |-> D, ac |-> appac]

\* The result of co_sub_dn_ind() when it returns ac before it reaches the
\* indication function.
NoInd(D, ac) == [D |-> D, ac |-> ac, ind |-> "", indret |-> 0]

\* co_sub_dn_ind() without the access check.
co_sub_dn_ind_noaccess(D, s, req, appac) ==
  IF s = NULL THEN NoInd(D, CO_SDO_AC_NO_SUB)
  ELSE IF req.null THEN NoInd(D, CO_SDO_AC_ERROR)
  ELSE LET R == CallDnInd(D, s, req, appac)
       IN  [D |-> R.D, ac |-> R.ac, ind |-> D.sub[s].dn_ind,
            indret |-> R.ac]

\* co_sub_dn_ind() turning every abort code of the indication function into
\* the general error.
co_sub_dn_ind_general(D, s, req, appac) ==
  IF s = NULL THEN NoInd(D, CO_SDO_AC_NO_SUB)
  ELSE IF ~HasBit(D.sub[s].access, CO_ACCESS_WRITE)
  THEN NoInd(D, CO_SDO_AC_NO_WRITE)
  ELSE IF req.null THEN NoInd(D, CO_SDO_AC_ERROR)
  ELSE LET R == CallDnInd(D, s, req, appac)
       IN  [D |-> R.D, ac |-> IF R.ac = 0 THEN 0 ELSE CO_SDO_AC_ERROR,
            ind |-> D.sub[s].dn_ind, indret |-> R.ac]

\* co_sub_dn_ind(): the new dictionary, the abort code, the indication
\* function that was invoked ("" if none) and what it returned; s is NULL
\* for a null pointer.
co_sub_dn_ind(D, s, req, appac) ==
  IF s = NULL THEN NoInd(D, CO_SDO_AC_NO_SUB)
  ELSE IF ~HasBit(D.sub[s].access, CO_ACCESS_WRITE)
  THEN NoInd(D, CO_SDO_AC_NO_WRITE)
  ELSE IF req.null THEN NoInd(D, CO_SDO_AC_ERROR)
  ELSE LET R == CallDnInd(D, s, req, appac)
       IN  [D |-> R.D, ac |-> R.ac, ind |-> D.sub[s].dn_ind,
            indret |-> R.ac]

\* co_val_write() for a basic type: the wire bytes of a value, the least
\* significant byte first.
co_val_write(type, val) == [i \in 1 .. co_type_sizeof(type) |-> val[i]]

\* co_sdo_req_up_val(): a request holding the wire bytes of the value.
co_sdo_req_up_val(type, val) == Req(co_val_write(type, val))

\* co_sub_dn_ind_val(): a local write of a value of the given type.
co_sub_dn_ind_val(D, s, type, val, appac) ==
  IF D.sub[s].type # type THEN NoInd(D, CO_SDO_AC_TYPE_LEN)
  ELSE co_sub_dn_ind(D, s, co_sdo_req_up_val(type, val), appac)

\* ------------------------------------------------------------ downloads

\* The device of the download scenario: object 1012 (handle 1) with the
\* TIME COB-ID 0x40000100 in 1012:00, object 1013 (handle 2) with the
\* high-resolution time stamp 1013:00, and object 2000 (handle 3) with the
\* sub-object 2000:00 of the given basic type; a TIME service is created
\* on it and its producer started.
BuiltDevice(type) ==
  LET D0 == [obj |-> [o \in 1 .. 3 |->
                       co_obj_init(IF o = 3 THEN 8192 ELSE 4113 + o)],
             sub |-> [s \in 1 .. 3 |->
                       co_sub_init(0, IF s = 3 THEN type
                                      ELSE CO_DEFTYPE_UNSIGNED32)],
             heap |-> [r \in 1 .. 4 |-> <<>>],
             err |-> ""]
      D1 == co_obj_insert_sub(D0, 1, 1, TRUE).D
      D2 == co_obj_insert_sub(D1, 2, 2, TRUE).D
      D3 == co_obj_insert_sub(D2, 3, 3, TRUE).D
  IN  co_sub_set_val(D3, 1, <<0, 1, 0, 64>>).D

\* The time at which the TIME service is created: 2017-01-01 00:01:40 UTC.
StartTime == [sec |-> 1483228900, nsec |-> 0]

\* The sub-object the downloads are made to.
TestSub == 3

InitDn ==
  \E type \in Types :
    LET R == co_time_init(BuiltDevice(type), StartTime, AllOk)
    IN  /\ obj = R.D.obj
        /\ sub = R.D.sub
        /\ heap = R.D.heap
        /\ time = co_time_start(R.T)
        /\ sent = NoMsg
        /\ last = Call("init", NULL, NULL, 0, "")
        /\ nfail = 0
        /\ node = NoNode
        /\ handle = NoHandle
        /\ flag = NoFlag

SubSetMin(s, c) ==
  /\ LET R == co_sub_set_min(Dict, s, ToBytes(c, co_type_sizeof(sub[s].type)))
     IN  Returns(R.D, "co_sub_set_min", sub[s].obj, s, R.ret)
  /\ UNCHANGED <<time, sent>>

SubSetMax(s, c) ==
  /\ LET R == co_sub_set_max(Dict, s, ToBytes(c, co_type_sizeof(sub[s].type)))
     IN  Returns(R.D, "co_sub_set_max", sub[s].obj, s, R.ret)
  /\ UNCHANGED <<time, sent>>

SubSetAccess(s, access) ==
  /\ LET R == co_sub_set_access(Dict, s, access)
     IN  Returns(R.D, "co_sub_set_access", sub[s].obj, s, R.ret)
  /\ UNCHANGED <<time, sent>>

SubSetFlags(s, flags) ==
  /\ Returns(co_sub_set_flags(Dict, s, flags), "co_sub_set_flags",
             sub[s].obj, s, 0)
  /\ UNCHANGED <<time, sent>>

SubSetDnInd(s, ind) ==
  /\ Returns(co_sub_set_dn_ind(Dict, s, ind), "co_sub_set_dn_ind",
             sub[s].obj, s, 0)
  /\ UNCHANGED <<time, sent>>

\* A download to sub-object s (NULL for a null pointer) of the request req;
\* appac is what the application's indication returns if it is invoked.
SubDnInd(s, req, appac) ==
  /\ s # NULL => sub[s].alive /\ sub[s].val.r # NULL
  /\ LET R == co_sub_dn_ind(Dict, s, req, appac)
     IN  /\ obj' = R.D.obj
         /\ sub' = R.D.sub
         /\ heap' = R.D.heap
         /\ last' = [CallInd("co_sub_dn_ind",
                             IF s = NULL THEN NULL ELSE sub[s].obj, s,
                             req.buf, R.ac, R.D.err, R.ind)
                       EXCEPT !.indret = R.indret]
  /\ UNCHANGED <<time, sent, nfail, node, handle, flag>>

\* A local write to sub-object s of the number c as a value of the type.
SubDnIndVal(s, type, c, appac) ==
  /\ sub[s].alive
  /\ sub[s].val.r # NULL
  /\ LET val == ToBytes(c, co_type_sizeof(type))
         R == co_sub_dn_ind_val(Dict, s, type, val, appac)
     IN  /\ obj' = R.D.obj
         /\ sub' = R.D.sub
         /\ heap' = R.D.heap
         /\ last' = [CallInd("co_sub_dn_ind_val", sub[s].obj, s, val, R.ac,
                             R.D.err, R.ind)
                       EXCEPT !.indret = R.indret]
  /\ UNCHANGED <<time, sent, nfail, node, handle, flag>>

\* The producer's timer expires at time tp.
TimeTimer(tp) ==
  /\ time.alive
  /\ time.timer
  /\ time.running
  /\ LET R == co_time_timer(Dict, time, tp)
     IN  /\ obj' = R.D.obj
         /\ sub' = R.D.sub
         /\ heap' = R.D.heap
         /\ last' = [Call("co_time_timer", NULL, time.sub_1013_00, 0,
                          R.D.err)
                       EXCEPT !.tp = tp]
         /\ sent' = R.msg
  /\ UNCHANGED <<time, nfail, node, handle, flag>>

\* The values downloaded and set.
DnVals == 0 .. (MaxVal + 1)
\* The requests: a value in one byte or in two.
Reqs == {Req(ToBytes(c, n)) : c \in DnVals, n \in 1 .. 2} \cup {NullReq}
\* The limits set.
Limits == 0 .. MaxVal
\* What the application's indication may return.
AppCodes == {0, CO_SDO_AC_ERROR}
\* The times at which the timer expires.
Ticks == {[sec |-> StartTime.sec + k, nsec |-> 0] : k \in 0 .. MaxTick}

NextDn ==
  \/ \E c \in Limits : SubSetMin(TestSub, c)
  \/ \E c \in Limits : SubSetMax(TestSub, c)
  \/ \E a \in {CO_ACCESS_RO, CO_ACCESS_WO, CO_ACCESS_RW, 0} :
       SubSetAccess(TestSub, a)
  \/ \E f \in {0, CO_OBJ_FLAGS_WRITE} : SubSetFlags(TestSub, f)
  \/ \E ind \in {"", "app_dn_ind"} : SubSetDnInd(TestSub, ind)
  \/ \E s \in {NULL, TestSub}, req \in Reqs, appac \in AppCodes :
       SubDnInd(s, req, appac)
  \/ \E type \in Types, c \in DnVals, appac \in AppCodes :
       SubDnIndVal(TestSub, type, c, appac)
  \/ \E type \in Types, c \in DnVals : SubSetVal(TestSub, type, c)
  \/ \E tp \in Ticks : TimeTimer(tp)

SpecDn == InitDn /\ [][NextDn]_vars

\* ------------------------------------------------------------ checks of
\* a value

\* The device of the download scenario with 2000:00 of a basic type or of
\* the type OCTET_STRING; no service is created.
InitChk ==
  \E type \in Types \cup {CO_DEFTYPE.OCTET_STRING} :
    /\ obj = BuiltDevice(type).obj
    /\ sub = BuiltDevice(type).sub
    /\ heap = BuiltDevice(type).heap
    /\ time = NoTime
    /\ sent = NoMsg
    /\ last = Call("init", NULL, NULL, 0, "")
    /\ nfail = 0
    /\ node = NoNode
    /\ handle = NoHandle
    /\ flag = NoFlag

\* co_sub_chk_val(sub, type, &c); the call records the type passed.
SubChkVal(s, type, c) ==
  /\ sub[s].alive
  /\ LET val == ToBytes(c, co_type_sizeof(type))
     IN  last' = [CallInd("co_sub_chk_val", sub[s].obj, s, val,
                          co_sub_chk_val(Dict, s, type, val), "", "")
                    EXCEPT !.inds = <<type>>]
  /\ UNCHANGED <<obj, sub, heap, time, sent, nfail, node, handle, flag>>

\* co_sub_dn(sub, &c) on a sub-object with a value.
SubDn(s, c) ==
  /\ sub[s].alive
  /\ sub[s].val.r # NULL
  /\ LET val == ToBytes(c, co_type_sizeof(sub[s].type))
         D == co_sub_dn(Dict, s, val)
     IN  /\ obj' = D.obj
         /\ sub' = D.sub
         /\ heap' = D.heap
         /\ last' = CallInd("co_sub_dn", sub[s].obj, s, val,
                            co_sub_dn_ret(Dict, s), "", "")
  /\ UNCHANGED <<time, sent, nfail, node, handle, flag>>

NextChk ==
  \/ \E c \in Limits : SubSetMin(TestSub, c)
  \/ \E c \in Limits : SubSetMax(TestSub, c)
  \/ \E f \in {0, CO_OBJ_FLAGS_WRITE} : SubSetFlags(TestSub, f)
  \/ \E c \in DnVals : SubDn(TestSub, c)
  \/ \E req \in Reqs : SubDnInd(TestSub, req, 0)
  \/ \E type \in Types \cup {CO_DEFTYPE.OCTET_STRING}, c \in DnVals :
       SubChkVal(TestSub, type, c)

SpecChk == InitChk /\ [][NextChk]_vars

\* ------------------------------------------------------------ uploads

\* co_sub_set_up_ind(); the indication "" stands for a null pointer.
co_sub_set_up_ind(D, s, ind) ==
  [D EXCEPT !.sub[s].up_ind = IF ind # "" THEN ind ELSE "default_sub_up_ind"]

\* co_sub_on_up(): the abort code and the bytes put in the request.
co_sub_on_up(D, s) ==
  IF SubVal(D.sub, D.heap, s) = <<>>
  THEN [ac |-> CO_SDO_AC_NO_DATA, buf |-> <<>>]
  ELSE [ac |-> 0,
        buf |-> co_sdo_req_up_val(D.sub[s].type, SubVal(D.sub, D.heap, s)).buf]

\* The call sub->up_ind(sub, req, sub->up_data).  The application's
\* indication app_up_ind returns the abort code appac and puts nothing in
\* the request.
CallUpInd(D, s, appac) ==
  CASE D.sub[s].up_ind = "default_sub_up_ind" -> co_sub_on_up(D, s)
    [] D.sub[s].up_ind = "app_up_ind" -> [ac |-> appac, buf |-> <<>>]

\* The result of co_sub_up_ind() when it returns ac before it reaches the
\* indication function.
NoUpInd(ac) == [ac |-> ac, buf |-> <<>>, ind |-> "", indret |-> 0]

\* co_sub_up_ind() without the access check.
co_sub_up_ind_noaccess(D, s, req, appac) ==
  IF s = NULL THEN NoUpInd(CO_SDO_AC_NO_SUB)
  ELSE IF req.null THEN NoUpInd(CO_SDO_AC_ERROR)
  ELSE LET R == CallUpInd(D, s, appac)
       IN  [ac |-> R.ac, buf |-> R.buf, ind |-> D.sub[s].up_ind,
            indret |-> R.ac]

\* co_sub_up_ind(): the abort code, the bytes uploaded, the indication
\* function that was invoked ("" if none) and what it returned; s is NULL
\* for a null pointer.
co_sub_up_ind(D, s, req, appac) ==
  IF s = NULL THEN NoUpInd(CO_SDO_AC_NO_SUB)
  ELSE IF ~HasBit(D.sub[s].access, CO_ACCESS_READ)
  THEN NoUpInd(CO_SDO_AC_NO_READ)
  ELSE IF req.null THEN NoUpInd(CO_SDO_AC_ERROR)
  ELSE LET R == CallUpInd(D, s, appac)
       IN  [ac |-> R.ac, buf |-> R.buf, ind |-> D.sub[s].up_ind,
            indret |-> R.ac]

SubSetUpInd(s, ind) ==
  /\ Returns(co_sub_set_up_ind(Dict, s, ind), "co_sub_set_up_ind",
             sub[s].obj, s, 0)
  /\ UNCHANGED <<time, sent>>

\* An upload from sub-object s (NULL for a null pointer) into the request
\* req; appac is what the application's indication returns if it is invoked.
SubUpInd(s, req, appac) ==
  /\ s # NULL => sub[s].alive
  /\ LET R == co_sub_up_ind(Dict, s, req, appac)
     IN  last' = [CallInd("co_sub_up_ind",
                          IF s = NULL THEN NULL ELSE sub[s].obj, s, R.buf,
                          R.ac, "", R.ind)
                    EXCEPT !.indret = R.indret]
  /\ UNCHANGED <<obj, sub, heap, time, sent, nfail, node, handle, flag>>

\* The requests of an upload: an empty request or a null pointer.
UpReqs == {Req(<<>>), NullReq}

NextUp ==
  \/ \E a \in {CO_ACCESS_RO, CO_ACCESS_WO, CO_ACCESS_RW, 0} :
       SubSetAccess(TestSub, a)
  \/ \E ind \in {"", "app_up_ind"} : SubSetUpInd(TestSub, ind)
  \/ \E s \in {NULL, TestSub}, req \in UpReqs, appac \in AppCodes :
       SubUpInd(s, req, appac)
  \/ \E type \in Types, c \in DnVals : SubSetVal(TestSub, type, c)

SpecUp == InitDn /\ [][NextUp]_vars

\* ------------------------------------------------------------ TIME service
\* on a network

\* The sub-object 1012:00 of the device.
Sub1012 == 1

\* The TIME COB-IDs of the scenario: 0x00000100, 0x80000100, 0x40000100,
\* 0xC0000100, 0x80000900, 0xA0000900 and 0x60000900.
CobIds ==
  {<<0, 1, 0, 0>>, <<0, 1, 0, 128>>, <<0, 1, 0, 64>>, <<0, 1, 0, 192>>,
   <<0, 9, 0, 128>>, <<0, 9, 0, 160>>, <<0, 9, 0, 96>>}

\* The device of the TIME scenario: the device of the download scenario
\* with the given COB-ID in 1012:00, or without object 1012.
TimeDevice(cobid, has_1012) ==
  LET D == co_sub_set_val(BuiltDevice(CO_DEFTYPE_UNSIGNED8), Sub1012, cobid).D
  IN  IF has_1012 THEN D ELSE co_obj_destroy(D, 1, TRUE)

InitTime ==
  \E cobid \in CobIds, has_1012 \in BOOLEAN :
    /\ obj = TimeDevice(cobid, has_1012).obj
    /\ sub = TimeDevice(cobid, has_1012).sub
    /\ heap = TimeDevice(cobid, has_1012).heap
    /\ time = NoTime
    /\ sent = NoMsg
    /\ last = Call("init", NULL, NULL, 0, "")
    /\ nfail = 0
    /\ node = NoNode
    /\ handle = NoHandle
    /\ flag = NoFlag

\* co_time_create() at the time StartTime; a service is created when there
\* is none and nothing is left of an earlier one.
TimeCreate(ok, okm) ==
  /\ ~time.alive
  /\ ~time.recv
  /\ ~time.timer
  /\ LET R == co_time_create(Dict, StartTime, ok, okm)
     IN  /\ obj' = R.D.obj
         /\ sub' = R.D.sub
         /\ heap' = R.D.heap
         /\ time' = R.T
         /\ last' = Call("co_time_create", NULL, NULL, R.ret, R.D.err)
  /\ UNCHANGED <<sent, nfail, node, handle, flag>>

TimeDestroy ==
  /\ time.alive
  /\ LET R == co_time_destroy(Dict)
     IN  /\ obj' = R.D.obj
         /\ sub' = R.D.sub
         /\ heap' = R.D.heap
         /\ time' = R.T
         /\ last' = Call("co_time_destroy", NULL, NULL, 0, "")
  /\ UNCHANGED <<sent, nfail, node, handle, flag>>

TimeSetInd(ind) ==
  /\ time.alive
  /\ time' = co_time_set_ind(time, ind)
  /\ last' = Call("co_time_set_ind", NULL, NULL, 0, "")
  /\ UNCHANGED <<obj, sub, heap, sent, nfail, node, handle, flag>>

TimeStart ==
  /\ time.alive
  /\ time' = co_time_start(time)
  /\ last' = Call("co_time_start", NULL, NULL, 0, "")
  /\ UNCHANGED <<obj, sub, heap, sent, nfail, node, handle, flag>>

TimeStop ==
  /\ time.alive
  /\ time' = co_time_stop(time)
  /\ last' = Call("co_time_stop", NULL, NULL, 0, "")
  /\ UNCHANGED <<obj, sub, heap, sent, nfail, node, handle, flag>>

\* Whether the network passes the frame to the service's receiver: the
\* receivers are keyed by the CAN-ID and the IDE flag.
Delivered(T, msg) ==
  /\ T.recv
  /\ msg.id = T.recv_id
  /\ HasBit(msg.flags, CAN_FLAG_IDE) = HasBit(T.recv_flags, CAN_FLAG_IDE)

\* The network passes a frame to the receiver of the service.
TimeRecv(msg) ==
  /\ time.alive
  /\ Delivered(time, msg)
  /\ last' = [Call("co_time_recv", NULL, NULL, 0, "")
                EXCEPT !.msg = msg, !.inds = co_time_recv(time, msg)]
  /\ UNCHANGED <<obj, sub, heap, time, sent, nfail, node, handle, flag>>

\* The network passes a frame to a receiver that outlived its service:
\* co_time_recv() reads time->ind from freed memory, and finds the pointer
\* null or not.
TimeRecvFreed(msg) ==
  /\ ~time.alive
  /\ Delivered(time, msg)
  /\ \E ind \in BOOLEAN :
       last' = [Call("co_time_recv", NULL, NULL, 0, "")
                 EXCEPT !.msg = msg,
                        !.inds = co_time_recv([time EXCEPT !.ind = ind], msg)]
  /\ UNCHANGED <<obj, sub, heap, time, sent, nfail, node, handle, flag>>

\* A download of the request to 1012:00; ok says whether the receiver and
\* the timer can be created.
Dn1012(req, ok) ==
  /\ sub[Sub1012].alive
  /\ sub[Sub1012].val.r # NULL
  /\ LET R == co_sub_dn_ind([Dict EXCEPT !.ok = ok], Sub1012, req, 0)
     IN  /\ obj' = R.D.obj
         /\ sub' = R.D.sub
         /\ heap' = R.D.heap
         /\ time' = R.D.time
         /\ last' = [CallInd("co_sub_dn_ind", sub[Sub1012].obj, Sub1012,
                             req.buf, R.ac, R.D.err, R.ind)
                       EXCEPT !.indret = R.indret]
  /\ UNCHANGED <<sent, nfail, node, handle, flag>>

\* The payloads of the frames received: A0 86 01 00 2C 2F, and the same
\* with a bit above the 28 of the milliseconds set.
FrameData ==
  {<<160, 134, 1, 0, 44, 47, 0, 0>>, <<160, 134, 1, 16, 44, 47, 0, 0>>}

\* The frames received.
Frames ==
  {[id |-> id, flags |-> flags, len |-> len, data |-> data] :
     id \in {256, 2304},
     flags \in {0, CAN_FLAG_IDE, CAN_FLAG_RTR, CAN_FLAG_IDE + CAN_FLAG_RTR,
                CAN_FLAG_EDL},
     len \in {5, 6, 8},
     data \in FrameData}

\* The times at which the timer expires.
TimeTicks == Ticks \cup {[sec |-> StartTime.sec, nsec |-> 999000000]}

\* The downloads to 1012:00: a COB-ID, or a request that is too short.
CobIdReqs == {Req(cobid) : cobid \in CobIds} \cup {Req(<<0, 1>>)}

\* What can_recv_create() and can_timer_create() may do.
Oks == [recv : BOOLEAN, timer : BOOLEAN]

NextTime ==
  \/ \E ok \in Oks, okm \in BOOLEAN : TimeCreate(ok, okm)
  \/ TimeDestroy
  \/ \E ind \in BOOLEAN : TimeSetInd(ind)
  \/ TimeStart
  \/ TimeStop
  \/ \E tp \in TimeTicks : TimeTimer(tp)
  \/ \E msg \in Frames : TimeRecv(msg)
  \/ \E msg \in Frames : TimeRecvFreed(msg)
  \/ \E req \in CobIdReqs, ok \in Oks : Dn1012(req, ok)

SpecTime == InitTime /\ [][NextTime]_vars

\* ------------------------------------------------------------ TIME frames
\* from the producer to a consumer

\* 1984-01-01 00:00:00 UTC in seconds since the Unix epoch.
Epoch1984 == (14 * 365 + 3) * 24 * 60 * 60

\* The times at which the producer's timer expires: the first and second
\* day of 1984, 2017-01-23 and the last day a signed 32-bit number of
\* seconds reaches, at the start, the second second and the end of the
\* day, with and without a fraction of a millisecond; the last second of
\* 1983; and the times around 2^32 microseconds after StartTime.
WireTimes ==
  {[sec |-> Epoch1984 + d * 86400 + s, nsec |-> n] :
     d \in {0, 1, 12076, 19741}, s \in {0, 1, 86399},
     n \in {0, 999999, 1000000, 123456789, 999999999}}
  \cup {[sec |-> Epoch1984 - 1, nsec |-> n] : n \in {0, 999999999}}
  \cup {[sec |-> StartTime.sec + 4294, nsec |-> n] :
          n \in {967295000, 967295999, 967296000, 967297000}}
  \cup {[sec |-> StartTime.sec + s, nsec |-> 0] : s \in {0, 1, 4295}}

\* The device of the TIME scenario with producer and consumer on CAN-ID
\* 0x100 (1012:00 = 0xC0000100) and 1013:00 of the given type, or without
\* object 1013 (type 0).
WireDevice(type) ==
  LET D == TimeDevice(<<0, 1, 0, 192>>, TRUE)
      D1 == co_sub_destroy(D, 2, TRUE)
      D2 == [D1 EXCEPT !.sub[2] = co_sub_init(0, type)]
  IN  IF type = CO_DEFTYPE_UNSIGNED32 THEN D
      ELSE IF type = 0 THEN co_obj_destroy(D, 2, TRUE)
      ELSE co_obj_insert_sub(D2, 2, 2, TRUE).D

\* The TIME service created on the device and started.
InitWire ==
  \E type \in {CO_DEFTYPE_UNSIGNED32, CO_DEFTYPE_UNSIGNED16, 0} :
    LET R == co_time_init(WireDevice(type), StartTime, AllOk)
    IN  /\ obj = R.D.obj
        /\ sub = R.D.sub
        /\ heap = R.D.heap
        /\ time = co_time_start(R.T)
        /\ sent = NoMsg
        /\ last = Call("init", NULL, NULL, 0, "")
        /\ nfail = 0
        /\ node = NoNode
        /\ handle = NoHandle
        /\ flag = NoFlag

\* The network passes the frame the producer sent to the consumer's
\* receiver.
WireDeliver ==
  /\ sent # NoMsg
  /\ TimeRecv(sent)

NextWire ==
  \/ \E ind \in BOOLEAN : TimeSetInd(ind)
  \/ \E tp \in WireTimes : TimeTimer(tp)
  \/ WireDeliver

SpecWire == InitWire /\ [][NextWire]_vars

\* ------------------------------------------------------------ the list of
\* sub-indices of an object

\* co_obj_get_subidx(): keys are the sub-indices of the tree in the order
\* of rbtree_first()/rbnode_next() (ascending), subidx is the caller's
\* array and null says that the pointer passed is NULL.  The result is the
\* value returned, rbtree_size() cast to co_unsigned8_t, and the array.
co_obj_get_subidx(keys, maxidx, null, subidx) ==
  LET m == IF null THEN 0 ELSE maxidx
  IN  [ret |-> Len(keys) % 256,
       subidx |-> [i \in 1 .. Len(subidx) |->
                    IF i <= m /\ i <= Len(keys) THEN keys[i] ELSE subidx[i]]]

\* The sub-indices lo, lo + step, ... (n of them) in ascending order.
KeysFrom(lo, n, step) == [i \in 1 .. n |-> lo + (i - 1) * step]

\* The populations of an object: none, the first n sub-indices, the last
\* n, every second and every 85th sub-index, and all 256.
Populations ==
  {KeysFrom(0, n, 1) : n \in {0, 1, 2, 3, 128, 255, 256}}
  \cup {KeysFrom(256 - n, n, 1) : n \in {1, 2, 255}}
  \cup {KeysFrom(lo, 128, 2) : lo \in {0, 1}}
  \cup {KeysFrom(0, 4, 85)}

\* An array of len elements that have not been written (-1).
Unwritten(len) == [i \in 1 .. len |-> -1]

\* co_obj_get_subidx() on an object with the sub-indices keys; the array
\* passed has maxidx elements.
ObjGetSubidx(keys, maxidx, null) ==
  /\ LET R == co_obj_get_subidx(keys, maxidx, null, Unwritten(maxidx))
     IN  last' = [CallInd("co_obj_get_subidx", NULL, NULL, keys, R.ret, "",
                          "")
                    EXCEPT !.inds = R.subidx, !.indret = maxidx,
                           !.ind = IF null THEN "NULL" ELSE "subidx"]
  /\ UNCHANGED <<obj, sub, heap, time, sent, nfail, node, handle, flag>>

NextSubidx ==
  \E keys \in Populations, maxidx \in {0, 1, 2, 3, 4, 128, 255},
     null \in BOOLEAN :
    ObjGetSubidx(keys, maxidx, null)

SpecSubidx == Init /\ [][NextSubidx]_vars

\* ------------------------------------------------------------ reference
\* counts and flags shared by threads

\* atomic_fetch_add_explicit(): the new value of the object and the value
\* returned, in one step.
atomic_fetch_add_explicit(object, operand) ==
  [object |-> object + operand, ret |-> object]

\* atomic_fetch_sub_explicit()
atomic_fetch_sub_explicit(object, operand) ==
  [object |-> object - operand, ret |-> object]

\* io_handle_acquire() by thread t.
io_handle_acquire(H, t) ==
  [H EXCEPT !.ref = atomic_fetch_add_explicit(H.ref, 1).object,
            !.acquired = @ + 1,
            !.late = @ \/ (H.acquired > 0 /\ H.ref = 0),
            !.thr[t].held = @ + 1]

\* io_handle_release() destroying the handle when the count was 2.
io_handle_release_early(H, t) ==
  [H EXCEPT !.ref = atomic_fetch_sub_explicit(H.ref, 1).object,
            !.thr[t].held = @ - 1,
            !.thr[t].pc =
              IF atomic_fetch_sub_explicit(H.ref, 1).ret = 2 THEN "destroy"
              ELSE ""]

\* io_handle_release() by thread t, up to the call of io_handle_destroy().
io_handle_release(H, t) ==
  [H EXCEPT !.ref = atomic_fetch_sub_explicit(H.ref, 1).object,
            !.thr[t].held = @ - 1,
            !.thr[t].pc =
              IF atomic_fetch_sub_explicit(H.ref, 1).ret = 1 THEN "destroy"
              ELSE ""]

\* io_handle_destroy(), called by io_handle_release().
io_handle_destroy(H, t) ==
  [H EXCEPT !.destroyed = @ + 1, !.thr[t].pc = ""]

\* io_handle_unique()
io_handle_unique(H) == IF H.ref = 1 THEN 1 ELSE 0

\* atomic_exchange_explicit()
atomic_exchange_explicit(object, desired) ==
  [object |-> desired, ret |-> object]

\* atomic_flag_test_and_set_explicit(): the flag and the value returned.
atomic_flag_test_and_set_explicit(F) ==
  [F |-> [F EXCEPT !.value = atomic_exchange_explicit(F.value, TRUE).object],
   ret |-> atomic_exchange_explicit(F.value, TRUE).ret]

\* atomic_flag_test_and_set()
atomic_flag_test_and_set(F) == atomic_flag_test_and_set_explicit(F)

\* atomic_flag_clear_explicit(): atomic_store_explicit(&object->__value, 0).
atomic_flag_clear_explicit(F) == [F EXCEPT !.value = FALSE]

\* atomic_flag_clear(): calls atomic_flag_test_and_set_explicit().
atomic_flag_clear(F) == atomic_flag_test_and_set_explicit(F).F

\* A call by thread t that returns ret.
ThreadCall(op, t, ret) == CallInd(op, NULL, NULL, <<t>>, ret, "", "")

HandleAcquire(t) ==
  /\ handle.thr[t].pc = ""
  /\ handle.acquired < MaxAcq
  /\ handle' = io_handle_acquire(handle, t)
  /\ last' = ThreadCall("io_handle_acquire", t, 0)
  /\ UNCHANGED <<obj, sub, heap, time, sent, nfail, node, flag>>

\* A thread releases a reference it has acquired.
HandleRelease(t) ==
  /\ handle.thr[t].pc = ""
  /\ handle.thr[t].held > 0
  /\ handle' = io_handle_release(handle, t)
  /\ last' = ThreadCall("io_handle_release", t, 0)
  /\ UNCHANGED <<obj, sub, heap, time, sent, nfail, node, flag>>

HandleDestroy(t) ==
  /\ handle.thr[t].pc = "destroy"
  /\ handle' = io_handle_destroy(handle, t)
  /\ last' = ThreadCall("io_handle_destroy", t, 0)
  /\ UNCHANGED <<obj, sub, heap, time, sent, nfail, node, flag>>

HandleUnique(t) ==
  /\ handle.thr[t].pc = ""
  /\ last' = ThreadCall("io_handle_unique", t, io_handle_unique(handle))
  /\ UNCHANGED <<obj, sub, heap, time, sent, nfail, node, handle, flag>>

\* A thread outside the section the flag guards calls
\* atomic_flag_test_and_set() and enters if it returns false.
FlagTestAndSet(t) ==
  /\ flag.thr[t] = "out"
  /\ LET R == atomic_flag_test_and_set(flag)
     IN  /\ flag' = [R.F EXCEPT !.thr[t] = IF R.ret THEN "out" ELSE "in"]
         /\ last' = ThreadCall("atomic_flag_test_and_set", t,
                               IF R.ret THEN 1 ELSE 0)
  /\ UNCHANGED <<obj, sub, heap, time, sent, nfail, node, handle>>

\* The holder of the flag leaves with atomic_flag_clear().
FlagClear(t) ==
  /\ flag.thr[t] = "in"
  /\ flag' = [atomic_flag_clear(flag) EXCEPT !.thr[t] = "out"]
  /\ last' = ThreadCall("atomic_flag_clear", t, 0)
  /\ UNCHANGED <<obj, sub, heap, time, sent, nfail, node, handle>>

\* The holder of the flag leaves with atomic_flag_clear_explicit().
FlagClearExplicit(t) ==
  /\ flag.thr[t] = "in"
  /\ flag' = [atomic_flag_clear_explicit(flag) EXCEPT !.thr[t] = "out"]
  /\ last' = ThreadCall("atomic_flag_clear_explicit", t, 0)
  /\ UNCHANGED <<obj, sub, heap, time, sent, nfail, node, handle>>

NextThreads ==
  \E t \in Threads :
    \/ HandleAcquire(t)
    \/ HandleRelease(t)
    \/ HandleDestroy(t)
    \/ HandleUnique(t)
    \/ FlagTestAndSet(t)
    \/ FlagClear(t)
    \/ FlagClearExplicit(t)

SpecThreads == Init /\ [][NextThreads]_vars

\* ------------------------------------------------------------ NMT and SDO
\* server of a slave

CO_SDO_AC_TOGGLE == 84082688
CO_SDO_AC_TIMEOUT == 84148224
CO_SDO_AC_NO_CS == 84148225
CO_SDO_AC_NO_OBJ == 100794368
CO_SDO_AC_DATA_DEV == 134217762

\* The services that exist in an NMT state.
NmtServices(st) ==
  CASE st = "Pre-operational" -> {"SDO", "NMT", "EMCY", "TIME", "HB"}
    [] st = "Operational" -> {"SDO", "NMT", "EMCY", "TIME", "HB", "PDO"}
    [] st = "Stopped" -> {"NMT", "HB"}
    [] OTHER -> {}

\* A slave that starts its services and registers its receivers when it is
\* constructed.
BasicSlave_started ==
  [NoNode EXCEPT !.nmt = "Initialisation",
                 !.srv = NmtServices("Pre-operational"),
                 !.recv = {0, 1536 + NodeId}]

\* The slave after construction.
BasicSlave == [NoNode EXCEPT !.nmt = "Initialisation"]

\* The boot-up message of the slave.
BootUp == [id |-> 1792 + NodeId, flags |-> 0, len |-> 1, data |-> <<0>>]

\* Reset(), and the NMT commands reset node and reset communication: the
\* slave enters Initialisation, emits the boot-up message and goes on to
\* Pre-operational with the receivers of NMT (CAN-ID 0x000) and of the SDO
\* server (0x600 + node-ID) registered.
slave_reset(N) ==
  [N |-> [nmt |-> "Pre-operational", srv |-> NmtServices("Pre-operational"),
          recv |-> {0, 1536 + NodeId}, sdo |-> NoSdo],
   out |-> <<BootUp>>]

\* An NMT node-control frame: the command specifier in data[0], the target
\* node-ID (0 for all nodes) in data[1].
nmt_recv(N, msg) ==
  LET cs == msg.data[1]
      To(st) == [N |-> [N EXCEPT !.nmt = st, !.srv = NmtServices(st)],
                 out |-> <<>>]
  IN  IF msg.len < 2 \/ msg.data[2] \notin {0, NodeId}
      THEN [N |-> N, out |-> <<>>]
      ELSE CASE cs = 1 -> To("Operational")
             [] cs = 2 -> To("Stopped")
             [] cs = 128 -> To("Pre-operational")
             [] cs \in {129, 130} -> slave_reset(N)
             [] OTHER -> [N |-> N, out |-> <<>>]

\* A frame of the SDO server: the command specifier, the multiplexer and
\* four bytes of data.
SdoFrame(cs, idx, subidx, data) ==
  [id |-> 1408 + NodeId, flags |-> 0, len |-> 8,
   data |-> <<cs>> \o ToBytes(idx, 2) \o <<subidx>> \o data]

\* The server aborts the transfer with the abort code ac and is idle.
SdoAbort(D, N, idx, subidx, ac) ==
  [D |-> D, N |-> [N EXCEPT !.sdo = NoSdo],
   out |-> <<SdoFrame(128, idx, subidx, ToBytes(ac, 4))>>, ac |-> ac]

\* The server answers with the command specifier cs and goes on with the
\* transfer slot S.
SdoRes(D, N, S, cs, idx, subidx, data) ==
  [D |-> D, N |-> [N EXCEPT !.sdo = S],
   out |-> <<SdoFrame(cs, idx, subidx, data)>>, ac |-> 0]

\* The end of a download: the bytes are passed to the download path of
\* the dictionary; res is the command specifier of the confirmation.
SdoDownload(D, N, idx, subidx, buf, res) ==
  LET s == co_dev_find_sub(D, idx, subidx)
      R == co_sub_dn_ind(D, s, Req(buf), 0)
  IN  IF co_dev_find_obj(D, idx) = NULL
      THEN SdoAbort(D, N, idx, subidx, CO_SDO_AC_NO_OBJ)
      ELSE IF R.ac # 0 THEN SdoAbort(D, N, idx, subidx, R.ac)
      ELSE SdoRes(R.D, N, NoSdo, res, IF res = 96 THEN idx ELSE 0,
                  IF res = 96 THEN subidx ELSE 0, Zeros(4))

\* Initiate download: expedited (the data in the frame) or segmented.
ssdo_dn_ini(D, N, msg) ==
  LET cs == msg.data[1]
      idx == FromBytes(SubSeq(msg.data, 2, 3))
      subidx == msg.data[4]
      e == (cs \div 2) % 2
      s == cs % 2
      n == IF s = 1 THEN (cs \div 4) % 4 ELSE 0
      target == co_dev_find_sub(D, idx, subidx)
  IN  IF e = 1
      THEN SdoDownload(D, N, idx, subidx, SubSeq(msg.data, 5, 8 - n), 96)
      ELSE IF co_dev_find_obj(D, idx) = NULL
      THEN SdoAbort(D, N, idx, subidx, CO_SDO_AC_NO_OBJ)
      ELSE IF target = NULL
      THEN SdoAbort(D, N, idx, subidx, CO_SDO_AC_NO_SUB)
      ELSE SdoRes(D, N,
                  [state |-> "DownloadSeg", toggle |-> 0, buf |-> <<>>,
                   size |-> IF s = 1 THEN FromBytes(SubSeq(msg.data, 5, 8))
                            ELSE -1,
                   idx |-> idx, subidx |-> subidx, lastseg |-> <<>>,
                   timer |-> TRUE, pre |-> SubVal(D.sub, D.heap, target)],
                  96, idx, subidx, Zeros(4))

\* Download segment applying a segment whose toggle bit is the one of the
\* segment before.
ssdo_dn_seg_notoggle(D, N, msg) ==
  LET S == N.sdo
      cs == msg.data[1]
      t == (cs \div 16) % 2
      buf == S.buf \o SubSeq(msg.data, 2, 8 - ((cs \div 2) % 8))
  IN  IF cs % 2 = 1
      THEN SdoDownload(D, N, S.idx, S.subidx, buf, 32 + 16 * t)
      ELSE SdoRes(D, N, [S EXCEPT !.toggle = 1 - t, !.buf = buf,
                                  !.lastseg = msg.data],
                  32 + 16 * t, 0, 0, Zeros(4))

\* Download segment: a segment with the toggle bit expected is appended
\* and confirmed; the segment accepted last, sent again, is dropped; any
\* other segment aborts the transfer.
ssdo_dn_seg(D, N, msg) ==
  LET S == N.sdo
      cs == msg.data[1]
      t == (cs \div 16) % 2
      n == (cs \div 2) % 8
      c == cs % 2
      buf == S.buf \o SubSeq(msg.data, 2, 8 - n)
  IN  IF t # S.toggle
      THEN IF msg.data = S.lastseg
           THEN [D |-> D, N |-> N, out |-> <<>>, ac |-> 0]
           ELSE SdoAbort(D, N, S.idx, S.subidx, CO_SDO_AC_TOGGLE)
      ELSE IF S.size # -1 /\ Len(buf) > S.size
      THEN SdoAbort(D, N, S.idx, S.subidx, CO_SDO_AC_TYPE_LEN_HI)
      ELSE IF c = 1 /\ S.size # -1 /\ Len(buf) < S.size
      THEN SdoAbort(D, N, S.idx, S.subidx, CO_SDO_AC_TYPE_LEN_LO)
      ELSE IF c = 1
      THEN SdoDownload(D, N, S.idx, S.subidx, buf, 32 + 16 * t)
      ELSE SdoRes(D, N, [S EXCEPT !.toggle = 1 - t, !.buf = buf,
                                  !.lastseg = msg.data],
                  32 + 16 * t, 0, 0, Zeros(4))

\* Initiate upload: the value is read through the upload path of the
\* dictionary and sent expedited.
ssdo_up_ini(D, N, msg) ==
  LET idx == FromBytes(SubSeq(msg.data, 2, 3))
      subidx == msg.data[4]
      R == co_sub_up_ind(D, co_dev_find_sub(D, idx, subidx), Req(<<>>), 0)
  IN  IF co_dev_find_obj(D, idx) = NULL
      THEN SdoAbort(D, N, idx, subidx, CO_SDO_AC_NO_OBJ)
      ELSE IF R.ac # 0 THEN SdoAbort(D, N, idx, subidx, R.ac)
      ELSE SdoRes(D, N, NoSdo, 67 + 4 * (4 - Len(R.buf)), idx, subidx,
                  R.buf \o Zeros(4 - Len(R.buf)))

\* The SDO server without the check of the NMT state.
ssdo_recv_nogate(D, N, msg) ==
  LET ccs == msg.data[1] \div 32
      idx == FromBytes(SubSeq(msg.data, 2, 3))
      subidx == msg.data[4]
  IN  CASE ccs = 4 ->
             [D |-> D, N |-> [N EXCEPT !.sdo = NoSdo], out |-> <<>>, ac |-> 0]
        [] ccs = 1 -> ssdo_dn_ini(D, N, msg)
        [] ccs = 0 /\ N.sdo.state = "DownloadSeg" -> ssdo_dn_seg(D, N, msg)
        [] ccs = 2 -> ssdo_up_ini(D, N, msg)
        [] OTHER -> SdoAbort(D, N, idx, subidx, CO_SDO_AC_NO_CS)

\* The SDO server receives a request: the command specifier is in the top
\* three bits of the first byte.  A request in the NMT state Stopped is
\* rejected; an abort of the client ends the transfer; an initiate ends a
\* transfer in progress and begins a new one.
ssdo_recv(D, N, msg) ==
  LET ccs == msg.data[1] \div 32
      idx == FromBytes(SubSeq(msg.data, 2, 3))
      subidx == msg.data[4]
  IN  IF N.nmt = "Stopped"
      THEN SdoAbort(D, N, IF ccs = 0 THEN N.sdo.idx ELSE idx,
                    IF ccs = 0 THEN N.sdo.subidx ELSE subidx,
                    CO_SDO_AC_DATA_DEV)
      ELSE CASE ccs = 4 ->
                  [D |-> D, N |-> [N EXCEPT !.sdo = NoSdo], out |-> <<>>,
                   ac |-> 0]
             [] ccs = 1 -> ssdo_dn_ini(D, N, msg)
             [] ccs = 0 /\ N.sdo.state = "DownloadSeg" ->
                  ssdo_dn_seg(D, N, msg)
             [] ccs = 2 -> ssdo_up_ini(D, N, msg)
             [] OTHER -> SdoAbort(D, N, idx, subidx, CO_SDO_AC_NO_CS)

\* The timeout of the SDO server without the return to Idle.
ssdo_timeout_stay(D, N) ==
  [D |-> D, N |-> N,
   out |-> <<SdoFrame(128, N.sdo.idx, N.sdo.subidx,
                      ToBytes(CO_SDO_AC_TIMEOUT, 4))>>,
   ac |-> CO_SDO_AC_TIMEOUT]

\* The timeout timer of the SDO server fires.
ssdo_timeout(D, N) ==
  SdoAbort(D, N, N.sdo.idx, N.sdo.subidx, CO_SDO_AC_TIMEOUT)

\* The device of the slave: the device of the download scenario.
InitNode ==
  \E type \in Types :
    /\ obj = BuiltDevice(type).obj
    /\ sub = BuiltDevice(type).sub
    /\ heap = BuiltDevice(type).heap
    /\ time = NoTime
    /\ sent = NoMsg
    /\ last = Call("BasicSlave", NULL, NULL, 0, "")
    /\ nfail = 0
    /\ node = BasicSlave
    /\ handle = NoHandle
    /\ flag = NoFlag

\* The frame sent last.
Sent(out) == IF out = <<>> THEN sent ELSE out[Len(out)]

SlaveReset ==
  /\ node.nmt # ""
  /\ node' = slave_reset(node).N
  /\ sent' = Sent(slave_reset(node).out)
  /\ last' = [Call("Reset", NULL, NULL, 0, "")
                EXCEPT !.out = slave_reset(node).out]
  /\ UNCHANGED <<obj, sub, heap, time, nfail, handle, flag>>

\* The network passes an NMT node-control frame to the slave.
NmtRecv(msg) ==
  /\ msg.id \in node.recv
  /\ node' = nmt_recv(node, msg).N
  /\ sent' = Sent(nmt_recv(node, msg).out)
  /\ last' = [Call("nmt_recv", NULL, NULL, 0, "")
                EXCEPT !.msg = msg, !.out = nmt_recv(node, msg).out]
  /\ UNCHANGED <<obj, sub, heap, time, nfail, handle, flag>>

\* The network passes a request to the SDO server; a segment that would
\* make the download longer than MaxBuf is not sent.
SdoRecv(msg) ==
  /\ msg.id \in node.recv
  /\ (msg.data[1] \div 32 = 0 /\ node.sdo.state = "DownloadSeg")
       => Len(node.sdo.buf) < MaxBuf
  /\ LET R == ssdo_recv(Dict, node, msg)
     IN  /\ obj' = R.D.obj
         /\ sub' = R.D.sub
         /\ heap' = R.D.heap
         /\ node' = R.N
         /\ sent' = Sent(R.out)
         /\ last' = [Call("ssdo_recv", NULL, NULL, R.ac, "")
                       EXCEPT !.msg = msg, !.out = R.out]
  /\ UNCHANGED <<time, nfail, handle, flag>>

\* The timeout timer of the SDO server, armed while a transfer is in
\* progress, fires; the record of the call holds the bytes assembled until
\* then.
SdoTimeout ==
  /\ node.sdo.timer
  /\ LET R == ssdo_timeout(Dict, node)
     IN  /\ node' = R.N
         /\ sent' = Sent(R.out)
         /\ last' = [CallInd("ssdo_timeout", NULL, NULL, node.sdo.buf, R.ac,
                             "", "")
                       EXCEPT !.out = R.out]
  /\ UNCHANGED <<obj, sub, heap, time, nfail, handle, flag>>

\* The NMT frames received: start, stop, enter pre-operational, reset node
\* and reset communication, to this node, to all nodes and to another.
NmtFrames ==
  {[id |-> 0, flags |-> 0, len |-> 2, data |-> <<cs, id>>] :
     cs \in {1, 2, 128, 129, 130}, id \in {0, NodeId, NodeId + 1}}

\* An SDO request to the multiplexer 2000:subidx.
SdoReq(cs, subidx, data) ==
  [id |-> 1536 + NodeId, flags |-> 0, len |-> 8,
   data |-> <<cs, 0, 32, subidx>> \o data]

\* The SDO requests received: expedited downloads of one and of two bytes,
\* initiations of a segmented download with and without the size, segments
\* of one byte with either toggle bit, initiations of an upload, an abort
\* and an unknown command.
SdoFrames ==
  {SdoReq(47, subidx, <<b, 0, 0, 0>>) : subidx \in {0, 1}, b \in {1, 2}}
    \cup {SdoReq(43, 0, <<b, 0, 0, 0>>) : b \in {1, 2}}
    \cup {SdoReq(33, 0, <<n, 0, 0, 0>>) : n \in {1, 2}}
    \cup {SdoReq(32, subidx, Zeros(4)) : subidx \in {0, 1}}
    \cup {[id |-> 1536 + NodeId, flags |-> 0, len |-> 8,
           data |-> <<16 * t + 12 + c, b, 0, 0, 0, 0, 0, 0>>] :
            t \in {0, 1}, c \in {0, 1}, b \in {1, 2}}
    \cup {SdoReq(64, subidx, Zeros(4)) : subidx \in {0, 1}}
    \cup {SdoReq(128, 0, Zeros(4)), SdoReq(224, 0, Zeros(4))}

NextNode ==
  \/ SlaveReset
  \/ \E msg \in NmtFrames : NmtRecv(msg)
  \/ \E msg \in SdoFrames : SdoRecv(msg)
  \/ SdoTimeout

SpecNode == InitNode /\ [][NextNode]_vars

\* ------------------------------------------------------------ properties

Attached(subS, s) == subS[s].alive /\ subS[s].obj # NULL

Reshaping ==
  {"co_obj_insert_sub", "co_obj_remove_sub", "co_sub_destroy",
   "co_obj_destroy"}

\* C1: an insertion, a removal or a destruction leaves the value of every
\* sub-object that held a value and is still attached afterwards as it was.
C1_ReshapeKeepsValues ==
  [][last'.op \in Reshaping =>
       \A s \in Subs :
         (Attached(sub, s) /\ Attached(sub', s) /\ sub[s].val.r # NULL)
           => SubVal(sub', heap', s) = SubVal(sub, heap, s)]_vars

\* A sub-object was inserted in front of one that holds a non-zero value,
\* which moved to a new offset of a new region.
C1_Witness ==
  /\ last.op = "co_obj_insert_sub"
  /\ last.ret = 0
  /\ last.err = ""
  /\ \E s \in Subs \ {last.s} :
       /\ sub[s].obj = last.o
       /\ sub[s].val.off > 0
       /\ SubVal(sub, heap, s) # Zeros(co_type_sizeof(sub[s].type))

\* The step attaches sub-object last'.s and rebuilds the region.
InsertedNew ==
  /\ last'.op = "co_obj_insert_sub"
  /\ last'.ret = 0
  /\ sub[last'.s].obj = NULL
  /\ sub'[last'.s].val.r # NULL

\* C2 as stated: a newly inserted sub-object holds its default value.
C2_InsertGivesDefault ==
  [][InsertedNew => SubVal(sub', heap', last'.s) = sub'[last'.s].def]_vars

\* C2 as amended: a newly inserted sub-object holds the zero value of its
\* type, whatever its default is.
C2_InsertGivesZero ==
  [][InsertedNew =>
       SubVal(sub', heap', last'.s)
         = Zeros(co_type_sizeof(sub'[last'.s].type))]_vars

\* A sub-object with a non-zero default has just been inserted and holds zero.
C2_Witness ==
  /\ last.op = "co_obj_insert_sub"
  /\ last.ret = 0
  /\ last.err = ""
  /\ sub[last.s].obj = last.o
  /\ sub[last.s].def # Zeros(co_type_sizeof(sub[last.s].type))
  /\ SubVal(sub, heap, last.s) = Zeros(co_type_sizeof(sub[last.s].type))
  /\ \A s \in Subs \ {last.s} : ~Attached(sub, s)

\* The object holds another sub-object with the sub-index of s.
KeyTaken(o, s) ==
  \E t \in obj[o].tree \ {s} : sub[t].subidx = sub[s].subidx

\* The sub-object is attached to an object other than o.
AttachedElsewhere(o, s) == sub[s].obj # NULL /\ sub[s].obj # o

\* C3: co_obj_insert_sub() returns -1 and changes nothing when the
\* sub-index is taken or the sub-object is attached to another object.
C3_InsertFails ==
  [][(/\ last'.op = "co_obj_insert_sub"
      /\ (KeyTaken(last'.o, last'.s) \/ AttachedElsewhere(last'.o, last'.s)))
       => last'.ret = -1 /\ UNCHANGED <<obj, sub, heap>>]_vars

\* An insertion has failed on a sub-index that is taken by another
\* sub-object.
C3_Witness ==
  /\ last.op = "co_obj_insert_sub"
  /\ last.ret = -1
  /\ sub[last.s].obj = NULL
  /\ KeyTaken(last.o, last.s)

\* C4: a sub-object's owner is object o iff o's tree holds the sub-object,
\* no tree holds two sub-objects with one sub-index, and a detached or
\* destroyed sub-object is in no tree.
C4_OneOwner ==
  /\ \A o \in Objs, s \in Subs :
       (sub[s].alive /\ sub[s].obj = o) <=> (obj[o].alive /\ s \in obj[o].tree)
  /\ \A o \in Objs : \A s, t \in obj[o].tree :
       sub[s].subidx = sub[t].subidx => s = t
  /\ \A s \in Subs : sub[s].obj # NULL => sub[s].alive /\ sub[s].obj \in Objs

\* A sub-object was destroyed while attached, and its object keeps another.
C4_Witness ==
  /\ last.op = "co_sub_destroy"
  /\ last.o # NULL
  /\ ~sub[last.s].alive
  /\ obj[last.o].tree # {}

\* C5: the value region is absent iff the object has no sub-objects, and
\* every attached sub-object's value lies inside its object's region.
C5_RegionIffSubs ==
  \A o \in Objs : obj[o].alive =>
    /\ (obj[o].val = NULL /\ obj[o].size = 0) <=> (obj[o].tree = {})
    /\ \A s \in obj[o].tree :
         /\ sub[s].val.r # NULL
         /\ sub[s].val.r = obj[o].val
         /\ sub[s].val.off + co_type_sizeof(sub[s].type) <= obj[o].size

\* C6: an insertion or removal during which calloc() fails returns -1 and
\* leaves the dictionary as it was.
C6_AllocFailureAtomic ==
  [][(last'.op \in {"co_obj_insert_sub", "co_obj_remove_sub"}
      /\ last'.err = "ENOMEM")
       => last'.ret = -1 /\ UNCHANGED <<obj, sub, heap>>]_vars

\* ------------------------------------------------------------ properties of
\* the write path

\* a <= b for unsigned numbers in little-endian bytes of one length.
LessEq(a, b) ==
  \/ a = b
  \/ \E i \in 1 .. Len(a) :
       a[i] < b[i] /\ \A j \in (i + 1) .. Len(a) : a[j] = b[j]

\* min <= v <= max for the limits of sub-object s.
InRange(subS, s, v) == LessEq(subS[s].min, v) /\ LessEq(v, subS[s].max)

Writable(subS, s) == HasBit(subS[s].access, CO_ACCESS_WRITE)

\* The step changes the stored value of sub-object s, attached throughout.
ValChanged(s) ==
  /\ Attached(sub, s)
  /\ Attached(sub', s)
  /\ SubVal(sub', heap', s) # SubVal(sub, heap, s)

\* The step is a download or a local write to sub-object s that returned 0,
\* with write access and a value within the limits, which is now the stored
\* value.
CheckedDownload(s) ==
  /\ last'.op \in {"co_sub_dn_ind", "co_sub_dn_ind_val"}
  /\ last'.s = s
  /\ last'.ret = 0
  /\ Writable(sub, s)
  /\ InRange(sub, s, SubVal(sub', heap', s))
  /\ SubVal(sub', heap', s) = last'.arg

\* C7 as stated: a stored value changes only by a download that passed the
\* access and range checks.
C7_OnlyCheckedWrites ==
  [][\A s \in DOMAIN sub : ValChanged(s) => CheckedDownload(s)]_vars

\* C7 as amended: a stored value changes only by co_sub_set_val() (which
\* the TIME producer's timer calls for 1013:00), unchecked, or by a
\* download that passed the access and range checks.
C7_WritesCheckedOrSet ==
  [][\A s \in DOMAIN sub : ValChanged(s) =>
       \/ last'.op \in {"co_sub_set_val", "co_time_timer"} /\ last'.s = s
       \/ CheckedDownload(s) /\ last'.ind = "default_sub_dn_ind"]_vars

\* A download has stored a non-zero value in a sub-object whose lower limit
\* is not zero and whose upper limit was set.
C7_Witness ==
  /\ last.op = "co_sub_dn_ind"
  /\ last.s = TestSub
  /\ last.ret = 0
  /\ last.ind = "default_sub_dn_ind"
  /\ sub[TestSub].min # co_val_init_min(sub[TestSub].type)
  /\ sub[TestSub].max # co_val_init_max(sub[TestSub].type)
  /\ SubVal(sub, heap, TestSub) = last.arg

\* The step is a download, through the default indication, of a value of
\* the type of the sub-object last'.s.
DefaultDownload ==
  /\ last'.op = "co_sub_dn_ind"
  /\ last'.s # NULL
  /\ last'.ind = "default_sub_dn_ind"
  /\ Len(last'.arg) = co_type_sizeof(sub[last'.s].type)

\* C8 as stated: with min <= max the download returns 0 and stores v iff
\* min <= v <= max, and else returns the code for above max or below min.
C8_BoundsStored ==
  [][(DefaultDownload /\ LessEq(sub[last'.s].min, sub[last'.s].max)) =>
       LET s == last'.s
           v == last'.arg
       IN  /\ (last'.ret = 0 /\ SubVal(sub', heap', s) = v)
                <=> InRange(sub, s, v)
           /\ ~LessEq(v, sub[s].max) => last'.ret = CO_SDO_AC_PARAM_HI
           /\ ~LessEq(sub[s].min, v) => last'.ret = CO_SDO_AC_PARAM_LO]_vars

\* C8 as amended: the download returns 0 iff min <= v <= max, and then
\* stores v unless the sub-object refuses writes on download; else it
\* returns the code for above max or below min and stores nothing.
C8_BoundsEnforced ==
  [][(DefaultDownload /\ LessEq(sub[last'.s].min, sub[last'.s].max)) =>
       LET s == last'.s
           v == last'.arg
           refuse == HasBit(sub[s].flags, CO_OBJ_FLAGS_WRITE)
       IN  /\ last'.ret = 0 <=> InRange(sub, s, v)
           /\ (last'.ret = 0 /\ ~refuse) => SubVal(sub', heap', s) = v
           /\ (last'.ret # 0 \/ refuse)
                => SubVal(sub', heap', s) = SubVal(sub, heap, s)
           /\ ~LessEq(v, sub[s].max) => last'.ret = CO_SDO_AC_PARAM_HI
           /\ ~LessEq(sub[s].min, v) => last'.ret = CO_SDO_AC_PARAM_LO]_vars

\* A value above the upper limit has been rejected, the limits being in
\* order and the lower one not zero.
C8_Witness ==
  /\ last.op = "co_sub_dn_ind"
  /\ last.s = TestSub
  /\ last.ind = "default_sub_dn_ind"
  /\ last.ret = CO_SDO_AC_PARAM_HI
  /\ Len(last.arg) = co_type_sizeof(sub[TestSub].type)
  /\ sub[TestSub].min # co_val_init_min(sub[TestSub].type)
  /\ LessEq(sub[TestSub].min, sub[TestSub].max)
  /\ ~LessEq(last.arg, sub[TestSub].max)
  /\ SubVal(sub, heap, TestSub) # last.arg

\* C9: with min > max a download through the default indication returns
\* the code for inverted limits and stores nothing.
C9_InvertedLimits ==
  [][(DefaultDownload /\ ~LessEq(sub[last'.s].min, sub[last'.s].max)) =>
       /\ last'.ret = CO_SDO_AC_PARAM_RANGE
       /\ UNCHANGED <<obj, sub, heap>>]_vars

\* A download of the lower limit itself was rejected for inverted limits.
C9_Witness ==
  /\ last.op = "co_sub_dn_ind"
  /\ last.s = TestSub
  /\ last.ind = "default_sub_dn_ind"
  /\ last.ret = CO_SDO_AC_PARAM_RANGE
  /\ ~LessEq(sub[TestSub].min, sub[TestSub].max)
  /\ last.arg = sub[TestSub].min
  /\ SubVal(sub, heap, TestSub) # last.arg

\* C10: co_sub_dn_ind() returns 0x06090011 for a null sub-object and
\* 0x06010002 for one without write access, invokes no indication and
\* changes nothing.
C10_AccessCheckedFirst ==
  [][last'.op = "co_sub_dn_ind" =>
       /\ last'.s = NULL =>
            /\ last'.ret = CO_SDO_AC_NO_SUB
            /\ last'.ind = ""
            /\ UNCHANGED <<obj, sub, heap>>
       /\ (last'.s # NULL /\ ~Writable(sub, last'.s)) =>
            /\ last'.ret = CO_SDO_AC_NO_WRITE
            /\ last'.ind = ""
            /\ UNCHANGED <<obj, sub, heap>>]_vars

\* A download to a read-only sub-object with the application's indication
\* registered was rejected.
C10_Witness ==
  /\ last.op = "co_sub_dn_ind"
  /\ last.s = TestSub
  /\ last.ret = CO_SDO_AC_NO_WRITE
  /\ last.ind = ""
  /\ sub[TestSub].access = CO_ACCESS_RO
  /\ sub[TestSub].dn_ind = "app_dn_ind"

\* The step is a download or a local write to the sub-object last'.s of a
\* value of its type that passes the access check.
PassesAccess ==
  /\ last'.op \in {"co_sub_dn_ind", "co_sub_dn_ind_val"}
  /\ last'.s # NULL
  /\ Writable(sub, last'.s)
  /\ Len(last'.arg) = co_type_sizeof(sub[last'.s].type)

\* C11: a download of a value outside [min, max] to a sub-object with the
\* application's download indication returns a range abort code and does
\* not invoke the indication.
C11_RangeCheckedBeforeInd ==
  [][(/\ PassesAccess
      /\ sub[last'.s].dn_ind = "app_dn_ind"
      /\ ~InRange(sub, last'.s, last'.arg))
       => /\ last'.ret \in {CO_SDO_AC_PARAM_HI, CO_SDO_AC_PARAM_LO,
                             CO_SDO_AC_PARAM_RANGE}
          /\ last'.ind = ""]_vars

\* C13: when the access check passes, the download indication is invoked
\* and co_sub_dn_ind() and co_sub_dn_ind_val() return exactly what it
\* returned.
C13_IndCodePropagates ==
  [][PassesAccess =>
       /\ last'.ind = sub[last'.s].dn_ind
       /\ last'.ret = last'.indret
       /\ last'.ret = 0 <=> last'.indret = 0]_vars

\* A local write to a write-only sub-object was refused by the
\* application's indication with its own abort code.
C13_Witness ==
  /\ last.op = "co_sub_dn_ind_val"
  /\ last.ind = "app_dn_ind"
  /\ last.indret = CO_SDO_AC_ERROR
  /\ last.ret = CO_SDO_AC_ERROR
  /\ sub[TestSub].access = CO_ACCESS_WO

\* C12: co_sub_up_ind() returns 0x06090011 for a null sub-object and
\* 0x06010001 for one without read access, and invokes no indication.
C12_ReadAccessCheckedFirst ==
  [][last'.op = "co_sub_up_ind" =>
       /\ last'.s = NULL =>
            /\ last'.ret = CO_SDO_AC_NO_SUB
            /\ last'.ind = ""
            /\ last'.arg = <<>>
       /\ (last'.s # NULL /\ ~HasBit(sub[last'.s].access, CO_ACCESS_READ)) =>
            /\ last'.ret = CO_SDO_AC_NO_READ
            /\ last'.ind = ""
            /\ last'.arg = <<>>]_vars

\* An upload from a write-only sub-object that holds a non-zero value and
\* has the application's indication registered was rejected.
C12_Witness ==
  /\ last.op = "co_sub_up_ind"
  /\ last.s = TestSub
  /\ last.ret = CO_SDO_AC_NO_READ
  /\ last.ind = ""
  /\ sub[TestSub].access = CO_ACCESS_WO
  /\ sub[TestSub].up_ind = "app_up_ind"
  /\ SubVal(sub, heap, TestSub) # Zeros(co_type_sizeof(sub[TestSub].type))

\* C14: a successful co_sub_set_val() on an attached sub-object makes the
\* value passed the stored value and leaves the values of the other
\* sub-objects of the object as they were.
C14_SetValReplaces ==
  [][(/\ last'.op = "co_sub_set_val"
      /\ last'.ret # 0
      /\ Attached(sub, last'.s))
       => /\ SubVal(sub', heap', last'.s) = last'.arg
          /\ \A t \in obj[last'.o].tree \ {last'.s} :
               SubVal(sub', heap', t) = SubVal(sub, heap, t)]_vars

\* A non-zero value was set in a sub-object that lies behind another one,
\* which holds a non-zero value too.
C14_Witness ==
  /\ last.op = "co_sub_set_val"
  /\ last.ret # 0
  /\ Attached(sub, last.s)
  /\ sub[last.s].val.off > 0
  /\ last.arg # Zeros(co_type_sizeof(sub[last.s].type))
  /\ SubVal(sub, heap, last.s) = last.arg
  /\ \E t \in obj[last.o].tree \ {last.s} :
       SubVal(sub, heap, t) # Zeros(co_type_sizeof(sub[t].type))

\* ------------------------------------------------------------ properties of
\* the TIME service

\* The time a TIME frame's payload stands for: bytes 0..3 are the
\* milliseconds since midnight, 28 bits, and bytes 4..5 the days since
\* 1984-01-01, which is 441763200 seconds after the Unix epoch.
DecodedTime(data) ==
  LET ms == data[1] + 256 * data[2] + 65536 * data[3]
              + 16777216 * (data[4] % 16)
      days == data[5] + 256 * data[6]
  IN  [sec |-> 441763200 + days * 86400 + ms \div 1000,
       nsec |-> (ms % 1000) * 1000000]

\* The step passes a frame to the receiver of a live service.
Receives == last'.op = "co_time_recv" /\ time.alive

\* C15: a classical frame of at least 6 bytes passed to the consumer's
\* receiver invokes the user's indication once with the decoded time, and
\* has no effect if no indication is registered.
C15_ConsumerIndicates ==
  [][(/\ Receives
      /\ last'.msg.flags \in {0, CAN_FLAG_IDE}
      /\ last'.msg.len >= 6)
       => /\ time.ind => last'.inds = <<DecodedTime(last'.msg.data)>>
          /\ ~time.ind =>
               /\ last'.inds = <<>>
               /\ UNCHANGED <<obj, sub, heap, time, sent>>]_vars

\* The indication was invoked for an 8-byte frame with an extended CAN-ID
\* whose payload has a bit above the 28 bits of the milliseconds set.
C15_Witness ==
  /\ last.op = "co_time_recv"
  /\ time.alive
  /\ time.ind
  /\ last.msg.flags = CAN_FLAG_IDE
  /\ last.msg.len = 8
  /\ last.msg.data[4] = 16
  /\ last.inds = <<[sec |-> 1485129700, nsec |-> 0]>>

\* The step creates a service on a device whose 1012:00 holds 0x80000100.
CreatesConsumer ==
  /\ last'.op = "co_time_create"
  /\ last'.ret # NULL
  /\ SubVal(sub, heap, Sub1012) = <<0, 1, 0, 128>>

\* The step passes the frame A0 86 01 00 2C 2F on CAN-ID 0x100 to a service
\* with 1012:00 = 0x80000100 and a user's indication.
ReceivesExample ==
  /\ Receives
  /\ time.ind
  /\ SubVal(sub, heap, Sub1012) = <<0, 1, 0, 128>>
  /\ last'.msg = [id |-> 256, flags |-> 0, len |-> 6,
                  data |-> <<160, 134, 1, 0, 44, 47, 0, 0>>]

\* C16 as stated: with 1012:00 = 0x80000100 the consumer listens on the
\* 11-bit CAN-ID 0x100, and the frame A0 86 01 00 2C 2F decodes to 100000 ms
\* and 12076 days and is indicated as 1483228900 s (2017-01-01 00:01:40).
C16_IndicatesJan01 ==
  [][/\ CreatesConsumer =>
          time'.recv /\ time'.recv_id = 256 /\ time'.recv_flags = 0
     /\ ReceivesExample =>
          /\ MsgTod(last'.msg) = [ms |-> 100000, days |-> 12076]
          /\ last'.inds = <<[sec |-> 1483228900, nsec |-> 0]>>]_vars

\* C16 as amended: the same, the time indicated being 1485129700 s
\* (2017-01-23 00:01:40), which is 12076 days after 1984-01-01.
C16_IndicatesJan23 ==
  [][/\ CreatesConsumer =>
          time'.recv /\ time'.recv_id = 256 /\ time'.recv_flags = 0
     /\ ReceivesExample =>
          /\ MsgTod(last'.msg) = [ms |-> 100000, days |-> 12076]
          /\ last'.inds = <<[sec |-> 1485129700, nsec |-> 0]>>]_vars

\* The frame of the example was received by a consumer created with
\* 1012:00 = 0x80000100 and indicated.
C16_Witness ==
  /\ last.op = "co_time_recv"
  /\ time.alive
  /\ time.ind
  /\ time.cobid = <<0, 1, 0, 128>>
  /\ SubVal(sub, heap, Sub1012) = <<0, 1, 0, 128>>
  /\ last.msg = [id |-> 256, flags |-> 0, len |-> 6,
                 data |-> <<160, 134, 1, 0, 44, 47, 0, 0>>]
  /\ Len(last.inds) = 1

\* C17: a remote frame, a CAN FD frame or a frame of fewer than 6 bytes
\* passed to the consumer's receiver invokes no indication, sends no frame
\* and changes neither the dictionary nor the service.
C17_ConsumerDrops ==
  [][(/\ Receives
      /\ \/ last'.msg.flags
               \in {CAN_FLAG_RTR, CAN_FLAG_IDE + CAN_FLAG_RTR, CAN_FLAG_EDL}
         \/ last'.msg.len < 6)
       => /\ last'.inds = <<>>
          /\ UNCHANGED <<obj, sub, heap, time, sent>>]_vars

\* A remote frame of 6 bytes was passed to a consumer with a user's
\* indication, which was not invoked.
C17_Witness ==
  /\ last.op = "co_time_recv"
  /\ time.alive
  /\ time.ind
  /\ last.msg.flags = CAN_FLAG_RTR
  /\ last.msg.len = 6
  /\ last.inds = <<>>

\* The frame a producer with the given COB-ID emits at time tp.
ProducedFrame(cobid, tp) ==
  LET since == tp.sec - 441763200
      ms == (since % 86400) * 1000 + tp.nsec \div 1000000
      days == since \div 86400
      ext == (cobid[4] \div 32) % 2 = 1
  IN  [id |-> IF ext
              THEN cobid[1] + 256 * cobid[2] + 65536 * cobid[3]
                     + 16777216 * (cobid[4] % 32)
              ELSE cobid[1] + 256 * (cobid[2] % 8),
       flags |-> IF ext THEN CAN_FLAG_IDE ELSE 0,
       len |-> 6,
       data |-> <<ms % 256, (ms \div 256) % 256, (ms \div 65536) % 256,
                  (ms \div 16777216) % 16, days % 256, (days \div 256) % 256>>]

\* C18: the frame the producer emits has 6 bytes, the milliseconds since
\* midnight and the days since 1984-01-01 in little-endian order, and the
\* CAN-ID of 1012:00 cut to 11 bits, or to 29 bits with the IDE flag if the
\* frame bit is set.
C18_ProducerFrame ==
  [][last'.op = "co_time_timer" =>
       /\ sent' = ProducedFrame(SubVal(sub, heap, Sub1012), last'.tp)
       /\ sent'.id < 536870912
       /\ sent'.flags = 0 => sent'.id < 2048]_vars

\* A frame with the extended CAN-ID 0x900 was emitted at a time that is not
\* a whole second.
C18_Witness ==
  /\ last.op = "co_time_timer"
  /\ last.tp.nsec # 0
  /\ sent.id = 2304
  /\ sent.flags = CAN_FLAG_IDE
  /\ sent.len = 6
  /\ sent.data = <<135, 138, 1, 0, 22, 47>>

\* C19: when co_time_create() returns NULL every sub-object of 1012 has the
\* default download indication and neither a receiver nor a timer remains.
C19_FailedCreateLeavesNothing ==
  [][(last'.op = "co_time_create" /\ last'.ret = NULL) =>
       /\ ~time'.alive
       /\ \A s \in DOMAIN sub :
            sub'[s].alive => sub'[s].dn_ind = "default_sub_dn_ind"
       /\ ~time'.recv
       /\ ~time'.timer]_vars

\* C20: co_time_create() fails when 1012:00 holds a COB-ID with one of the
\* bits 11..28 set and the frame bit clear.
C20_BadCobidRejected ==
  [][(/\ last'.op = "co_time_create"
      /\ sub[Sub1012].alive
      /\ LET cobid == SubVal(sub, heap, Sub1012)
         IN  /\ (cobid[4] \div 32) % 2 = 0
             /\ cobid[2] \div 8 # 0 \/ cobid[3] # 0 \/ cobid[4] % 32 # 0)
       => /\ last'.ret = NULL
          /\ ~time'.recv
          /\ ~time'.timer]_vars

\* C21: co_time_destroy() leaves no service, no receiver and no timer, and
\* the default download indication on every sub-object of object 1012; and
\* while there is no service no frame reaches co_time_recv(), no timer
\* expiry reaches co_time_timer(), and a download to 1012:00 runs the default
\* indication and leaves the (absent) service alone.
C21_DestroyReleases ==
  [][/\ last'.op = "co_time_destroy" =>
          /\ time' = NoTime
          /\ \A s \in DOMAIN sub :
               (sub'[s].alive /\ sub'[s].obj = co_dev_find_obj(Dict, 4114))
                 => sub'[s].dn_ind = "default_sub_dn_ind"
     /\ time = NoTime =>
          /\ last'.op # "co_time_recv"
          /\ last'.op # "co_time_timer"
          /\ sent' = sent
          /\ last'.op = "co_sub_dn_ind" =>
               /\ last'.ind = "default_sub_dn_ind"
               /\ time' = NoTime]_vars

\* A service whose COB-ID 0xC0000100 enabled both the consumer and the
\* producer has just been destroyed.
C21_Witness ==
  /\ last.op = "co_time_destroy"
  /\ sub[Sub1012].alive
  /\ SubVal(sub, heap, Sub1012) = <<0, 1, 0, 192>>
  /\ sub[Sub1012].dn_ind = "default_sub_dn_ind"
  /\ ~time.recv
  /\ ~time.timer

\* C22: co_type_is_basic() returns 1 exactly for BOOLEAN, the INTEGER and
\* UNSIGNED types and the two REAL types, co_type_is_array() returns 1
\* exactly for the three string types and DOMAIN, no type code gets 1 from
\* both, and TIME_OF_DAY, TIME_DIFF and the codes of no type get 0 from both.
C22_TypePartition ==
  [][LET type == FromBytes(last'.arg)
         Named(names) == {CO_DEFTYPE[n] : n \in names}
         basic == Named({"BOOLEAN", "INTEGER8", "INTEGER16", "INTEGER24",
                          "INTEGER32", "INTEGER40", "INTEGER48", "INTEGER56",
                          "INTEGER64", "UNSIGNED8", "UNSIGNED16",
                          "UNSIGNED24", "UNSIGNED32", "UNSIGNED40",
                          "UNSIGNED48", "UNSIGNED56", "UNSIGNED64", "REAL32",
                          "REAL64"})
         array == Named({"VISIBLE_STRING", "OCTET_STRING", "UNICODE_STRING",
                          "DOMAIN"})
     IN  /\ last'.op = "co_type_is_basic" =>
              /\ last'.ret = 1 <=> type \in basic
              /\ last'.ret = 1 => ~co_type_is_array(type)
              /\ last'.ret \in {0, 1}
         /\ last'.op = "co_type_is_array" =>
              /\ last'.ret = 1 <=> type \in array
              /\ last'.ret = 1 => ~co_type_is_basic(type)
              /\ last'.ret \in {0, 1}
         /\ last'.op \in {"co_type_is_basic", "co_type_is_array"} =>
              (type \in {CO_DEFTYPE.TIME_OF_DAY, CO_DEFTYPE.TIME_DIFF, 0, 14,
                         23, INVALID_TYPE} \cup (28 .. MaxType)
                 => last'.ret = 0)]_vars

\* co_type_is_basic() has been applied to TIME_OF_DAY.
C22_Witness ==
  /\ last.op = "co_type_is_basic"
  /\ FromBytes(last.arg) = CO_DEFTYPE.TIME_OF_DAY
  /\ last.ret = 0

SegmentArrives ==
  /\ last'.op = "ssdo_recv"
  /\ last'.msg.data[1] \div 32 = 0
  /\ node.sdo.state = "DownloadSeg"
  /\ node.nmt # "Stopped"

\* The abort frame of the SDO server for the transfer in progress.
AbortFrame(ac) ==
  SdoFrame(128, node.sdo.idx, node.sdo.subidx, ToBytes(ac, 4))

\* C24: during a segmented download the segment accepted last, when it
\* arrives again, changes neither the bytes assembled nor the state of
\* the server nor the dictionary and gets no response; any other segment
\* whose toggle bit is not the one expected is answered with the abort
\* code 0x05030000 and ends the transfer.
C24_ToggleDiscipline ==
  [][SegmentArrives =>
       /\ last'.msg.data = node.sdo.lastseg =>
            /\ node' = node
            /\ last'.out = <<>>
            /\ sent' = sent
            /\ UNCHANGED <<obj, sub, heap>>
       /\ (/\ last'.msg.data # node.sdo.lastseg
           /\ (last'.msg.data[1] \div 16) % 2 # node.sdo.toggle) =>
            /\ last'.ret = CO_SDO_AC_TOGGLE
            /\ last'.out = <<AbortFrame(84082688)>>
            /\ node'.sdo = NoSdo
            /\ UNCHANGED <<obj, sub, heap>>]_vars

\* The first segment of a download has arrived a second time and has been
\* dropped: the bytes assembled hold its payload once.
C24_Witness ==
  /\ last.op = "ssdo_recv"
  /\ node.sdo.state = "DownloadSeg"
  /\ last.msg.data = node.sdo.lastseg
  /\ last.msg.data[2] = 1
  /\ node.sdo.buf = <<1>>
  /\ node.sdo.toggle = 1
  /\ last.out = <<>>

\* C25: the timeout timer is armed exactly while a transfer is in
\* progress; when it fires the server sends the abort code 0x05040000, is
\* idle with no bytes assembled and the timer released, and the target
\* holds the value it had when the transfer began.
C25_Timeout ==
  [][/\ node.sdo.timer <=> node.sdo.state # "Idle"
     /\ last'.op = "ssdo_timeout" =>
          /\ node.sdo.state # "Idle"
          /\ last'.ret = CO_SDO_AC_TIMEOUT
          /\ last'.out = <<AbortFrame(84148224)>>
          /\ sent' = AbortFrame(84148224)
          /\ node'.sdo.state = "Idle"
          /\ node'.sdo.buf = <<>>
          /\ ~node'.sdo.timer
          /\ UNCHANGED <<obj, sub, heap>>
          /\ SubVal(sub', heap',
                    co_dev_find_sub(Dict, node.sdo.idx, node.sdo.subidx))
               = node.sdo.pre]_vars

\* The timer has fired after the first segment of a download to 2000:00.
C25_Witness ==
  /\ last.op = "ssdo_timeout"
  /\ last.arg = <<2>>
  /\ node.sdo = NoSdo
  /\ sent.data = <<128, 0, 32, 0, 0, 0, 4, 5>>
  /\ FromBytes(SubVal(sub, heap, TestSub)) = 0

\* C26: no SDO request reaches the server in the NMT state
\* Initialisation; in the state Stopped every request is answered with
\* the abort code 0x08000022 and the dictionary stays as it is; in the
\* states Pre-operational and Operational no request gets that code.
C26_NmtGating ==
  [][last'.op = "ssdo_recv" =>
       /\ node.nmt \in {"Pre-operational", "Operational", "Stopped"}
       /\ node.nmt = "Stopped" =>
            /\ last'.ret = CO_SDO_AC_DATA_DEV
            /\ Len(last'.out) = 1
            /\ last'.out[1].data[1] = 128
            /\ SubSeq(last'.out[1].data, 5, 8) = <<34, 0, 0, 8>>
            /\ UNCHANGED <<obj, sub, heap>>
       /\ node.nmt # "Stopped" => last'.ret # CO_SDO_AC_DATA_DEV]_vars

\* An expedited download of one byte to 2000:00 has been rejected in the
\* state Stopped.
C26_Witness ==
  /\ last.op = "ssdo_recv"
  /\ node.nmt = "Stopped"
  /\ last.msg.data = <<47, 0, 32, 0, 1, 0, 0, 0>>
  /\ last.ret = CO_SDO_AC_DATA_DEV
  /\ sent.data = <<128, 0, 32, 0, 34, 0, 0, 8>>

\* C27: a download through co_sub_dn_ind() that does not reach an
\* indication function or reaches the default one, and returns an abort
\* code, leaves every object, every sub-object (value, limits and default
\* included) and every value region as it was.
C27_RejectedDownloadChangesNothing ==
  [][(/\ last'.op = "co_sub_dn_ind"
      /\ last'.ind \in {"", "default_sub_dn_ind"}
      /\ last'.ret # 0)
       => /\ obj' = obj
          /\ sub' = sub
          /\ heap' = heap]_vars

\* The default indication has rejected a value above the maximum of
\* 2000:00, which still holds another value.
C27_Witness ==
  /\ last.op = "co_sub_dn_ind"
  /\ last.s = TestSub
  /\ last.ind = "default_sub_dn_ind"
  /\ last.ret = CO_SDO_AC_PARAM_HI
  /\ last.arg # SubVal(sub, heap, TestSub)

\* C28: after a successful co_time_create() and after every download to
\* 1012:00 of a device with a TIME service, the COB-ID the service holds is
\* the value of 1012:00, a receiver exists iff its consumer bit is set and
\* a timer exists iff its producer bit is set.
C28_ServiceFollowsCobid ==
  [][(\/ last'.op = "co_time_create" /\ last'.ret # NULL
      \/ last'.op = "co_sub_dn_ind" /\ last'.s = Sub1012 /\ time.alive)
       => /\ time'.cobid = SubVal(sub', heap', Sub1012)
          /\ time'.recv <=> TestBit(time'.cobid, CO_TIME_COBID_CONSUMER)
          /\ time'.timer <=> TestBit(time'.cobid, CO_TIME_COBID_PRODUCER)]_vars

\* A COB-ID is downloaded to 1012:00 of a device with a TIME service.
DownloadsCobid ==
  /\ last'.op = "co_sub_dn_ind"
  /\ last'.s = Sub1012
  /\ Len(last'.arg) = 4
  /\ time.alive

\* Whether the producer or the consumer of a TIME COB-ID is enabled.
Active(cobid) ==
  \/ TestBit(cobid, CO_TIME_COBID_PRODUCER)
  \/ TestBit(cobid, CO_TIME_COBID_CONSUMER)

\* Whether a COB-ID has one of the bits 11..28 set and the frame bit clear.
BadCanId(cobid) ==
  /\ ~TestBit(cobid, CO_TIME_COBID_FRAME)
  /\ \E k \in 11 .. 28 : TestBit(cobid, k)

\* The download changes the 29-bit CAN-ID of 1012:00.
ChangesCanId ==
  MaskLow(SubVal(sub, heap, Sub1012), 29) # MaskLow(last'.arg, 29)

\* The download is rejected with the parameter-value abort code and
\* leaves 1012:00 and the service as they were.
RejectedParamVal ==
  /\ last'.ret = CO_SDO_AC_PARAM_VAL
  /\ UNCHANGED <<obj, sub, heap, time>>

\* C29 as claimed: a download that changes the CAN-ID is rejected with the
\* parameter-value abort code and changes nothing when the old and the new
\* COB-ID both have an enable bit set, and is accepted when either has
\* none.
C29_CanIdChangeAccepted ==
  [][(DownloadsCobid /\ ChangesCanId) =>
       IF Active(SubVal(sub, heap, Sub1012)) /\ Active(last'.arg)
       THEN RejectedParamVal
       ELSE last'.ret = 0 /\ time'.cobid = last'.arg]_vars

\* C29 as amended: a download that changes the CAN-ID is rejected with the
\* parameter-value abort code and changes nothing when the old and the new
\* COB-ID both have an enable bit set; when either has none it is accepted
\* unless the new COB-ID has one of the bits 11..28 set with the frame bit
\* clear.
C29_CanIdChange ==
  [][(DownloadsCobid /\ ChangesCanId) =>
       IF Active(SubVal(sub, heap, Sub1012)) /\ Active(last'.arg)
       THEN RejectedParamVal
       ELSE ~BadCanId(last'.arg) =>
              last'.ret = 0 /\ time'.cobid = last'.arg]_vars

\* The download of 0xA0000900 to a 1012:00 holding 0x80000100 has been
\* rejected.
C29_Witness ==
  /\ last.op = "co_sub_dn_ind"
  /\ last.s = Sub1012
  /\ time.alive
  /\ last.arg = <<0, 9, 0, 160>>
  /\ SubVal(sub, heap, Sub1012) = <<0, 1, 0, 128>>
  /\ time.cobid = <<0, 1, 0, 128>>
  /\ last.ret = CO_SDO_AC_PARAM_VAL

TruncMs(tp) == [sec |-> tp.sec, nsec |-> (tp.nsec \div 1000000) * 1000000]

\* The time is at or after 1984-01-01 and its day count fits in 16 bits.
Encodable(tp) ==
  /\ tp.sec >= Epoch1984
  /\ (tp.sec - Epoch1984) \div 86400 < 65536

\* The frame the producer has just sent for last.tp is delivered to a
\* consumer with an indication function.
WireRoundTrip ==
  /\ last.op = "co_time_timer"
  /\ last'.op = "co_time_recv"
  /\ last'.msg = sent
  /\ time.ind

\* C31: for a time tp from 1984-01-01 on with a day count below 65536,
\* the frame the producer emits for tp makes the consumer indicate tp
\* truncated to whole milliseconds.
C31_WireRoundTrip ==
  [][(WireRoundTrip /\ Encodable(last.tp))
       => last'.inds = <<TruncMs(last.tp)>>]_vars

\* A frame produced on the last day reached, one nanosecond before
\* midnight, has been delivered and indicated as 23:59:59.999.
C31_Witness ==
  /\ last.op = "co_time_recv"
  /\ last.msg = sent
  /\ last.inds = <<[sec |-> Epoch1984 + 19741 * 86400 + 86399,
                    nsec |-> 999000000]>>

\* ------------------------------------------------------------ properties of
\* the TIME producer

\* Whether the producer bit of the COB-ID the service holds is set.
ProducerOn(T) == T.alive /\ TestBit(T.cobid, CO_TIME_COBID_PRODUCER)

\* Whether the service emits a frame when time passes: its timer exists
\* and has been started.
Emitting(T) == T.alive /\ T.timer /\ T.running

\* C32: a TIME frame is emitted only with the producer bit set and the
\* timer started; co_time_start and co_time_stop change nothing while the
\* producer is disabled; after a download that clears the producer bit no
\* frame is emitted, and after one that sets it none is emitted until
\* co_time_start is called.
C32_EmissionGated ==
  [][/\ last'.op = "co_time_timer" => ProducerOn(time) /\ Emitting(time)
     /\ (last'.op \in {"co_time_start", "co_time_stop"} /\ ~ProducerOn(time))
          => time' = time
     /\ (DownloadsCobid /\ ProducerOn(time) /\ ~ProducerOn(time'))
          => ~Emitting(time')
     /\ (DownloadsCobid /\ ~ProducerOn(time) /\ ProducerOn(time'))
          => ~Emitting(time')]_vars

\* (k * n + carry) modulo 256^(Len(n) - i + 1), for a number n given by its
\* little-endian bytes from the i-th on: long multiplication byte by byte.
RECURSIVE MulAdd(_, _, _, _)
MulAdd(n, i, k, carry) ==
  IF i > Len(n) THEN <<>>
  ELSE <<(n[i] * k + carry) % 256>>
         \o MulAdd(n, i + 1, k, (n[i] * k + carry) \div 256)

\* The whole microseconds from start to tp modulo 2^32, as the bytes of a
\* co_unsigned32_t.
ElapsedUsec(tp, start) ==
  MulAdd(ToBytes(tp.sec - start.sec, 4), 1, 1000000,
         (tp.nsec - start.nsec) \div 1000)

\* The sub-object 1013:00 of the dictionary, NULL if there is none.
Sub1013 == co_dev_find_sub(Dict, 4115, 0)

\* C33: when the producer's timer expires at tp, 1013:00, if it exists and
\* has the type UNSIGNED32, holds the microseconds from the creation of
\* the service to tp modulo 2^32; if it does not exist or has another type
\* no value of the dictionary changes.
C33_TimeStamp ==
  [][last'.op = "co_time_timer" =>
       IF Sub1013 # NULL /\ sub[Sub1013].type = CO_DEFTYPE_UNSIGNED32
       THEN SubVal(sub', heap', Sub1013) = ElapsedUsec(last'.tp, time.start)
       ELSE UNCHANGED <<obj, sub, heap>>]_vars

\* The timer has expired 2^32 - 1 microseconds after the creation of the
\* service, and one microsecond later, where the time stamp wraps to 0 from
\* FF FF FF FF.
C33_Witness ==
  /\ last.op = "co_time_timer"
  /\ last.tp = [sec |-> StartTime.sec + 4294, nsec |-> 967296000]
  /\ Sub1013 # NULL
  /\ sub[Sub1013].type = CO_DEFTYPE_UNSIGNED32
  /\ SubVal(sub, heap, Sub1013) = <<0, 0, 0, 0>>

\* ------------------------------------------------------------ properties of
\* the list of sub-indices

Min(a, b) == IF a < b THEN a ELSE b

\* The array holds the n smallest sub-indices of keys in strictly
\* ascending order and is untouched behind them.
HoldsSmallest(arr, keys, n) ==
  /\ \A i \in 1 .. n : arr[i] \in {keys[k] : k \in 1 .. Len(keys)}
  /\ \A i \in 1 .. (n - 1) : arr[i] < arr[i + 1]
  /\ \A i \in 1 .. n :
       Cardinality({k \in 1 .. Len(keys) : keys[k] < arr[i]}) = i - 1
  /\ \A i \in (n + 1) .. Len(arr) : arr[i] = -1

\* C34: co_obj_get_subidx returns the number of sub-objects of the object
\* and writes the min(maxidx, count) smallest sub-indices into the array
\* in strictly ascending order, nothing when the array pointer is NULL,
\* for every population of the 256 sub-indices.
C34_SubidxCount ==
  [][last'.op = "co_obj_get_subidx" =>
       /\ last'.ret = Len(last'.arg)
       /\ HoldsSmallest(last'.inds, last'.arg,
                        IF last'.ind = "NULL" THEN 0
                        ELSE Min(last'.indret, Len(last'.arg)))]_vars

\* ------------------------------------------------------------ properties of
\* the layout of the value region

\* The end of the slot of the i-th sub-object of seq, 0 before the first.
SlotEnd(subS, seq, i) ==
  IF i = 0 THEN 0
  ELSE subS[seq[i]].val.off + co_type_sizeof(subS[seq[i]].type)

\* The sub-objects of object o, in ascending sub-index order, lie in the
\* region of the object one behind the other, each at the first offset its
\* alignment allows, and the size of the object is the end of the last.
LaidOut(objS, subS, o) ==
  LET seq == TreeSeq(subS, objS[o].tree)
  IN  /\ \A i \in 1 .. Len(seq) :
           LET val == subS[seq[i]].val
               a == co_type_alignof(subS[seq[i]].type)
           IN  /\ val.r # NULL
               /\ val.r = objS[o].val
               /\ val.off % a = 0
               /\ val.off >= SlotEnd(subS, seq, i - 1)
               /\ val.off - SlotEnd(subS, seq, i - 1) < a
      /\ \A i, j \in 1 .. Len(seq) :
           i < j => SlotEnd(subS, seq, i) <= subS[seq[j]].val.off
      /\ objS[o].size = SlotEnd(subS, seq, Len(seq))

\* C35: after every insertion or removal that returns 0 the sub-objects
\* of the object are laid out in ascending sub-index order, each at the
\* smallest offset that is a multiple of its alignment and not below the
\* end of the one before, without overlap, and the size of the object is
\* the end of the last.
C35_Layout ==
  [][(last'.op \in {"co_obj_insert_sub", "co_obj_remove_sub"}
      /\ last'.ret = 0)
       => LaidOut(obj', sub', last'.o)]_vars

\* ------------------------------------------------------------ properties of
\* co_sub_chk_val

\* The abort code the claim gives for a value of the type passed, checked
\* against the sub-object x: the type first, then the order of the limits,
\* then the upper and the lower limit.
ChkCode(x, type, val) ==
  IF x.type # type THEN CO_SDO_AC_TYPE_LEN
  ELSE IF ~LessEq(x.min, x.max) THEN CO_SDO_AC_PARAM_RANGE
  ELSE IF ~LessEq(val, x.max) THEN CO_SDO_AC_PARAM_HI
  ELSE IF ~LessEq(x.min, val) THEN CO_SDO_AC_PARAM_LO
  ELSE 0

\* C36 as claimed: for every sub-object co_sub_chk_val returns the first
\* that applies of type/length mismatch, range inverted, above max and
\* below min, and ok only if the type passed is the sub-object's and
\* min <= value <= max.
C36_ChkValAny ==
  [][last'.op = "co_sub_chk_val" =>
       /\ last'.ret = ChkCode(sub[last'.s], last'.inds[1], last'.arg)
       /\ last'.ret = 0 =>
            /\ sub[last'.s].type = last'.inds[1]
            /\ InRange(sub, last'.s, last'.arg)]_vars

\* C36: for a sub-object of a basic type co_sub_chk_val returns the first
\* that applies of type/length mismatch, range inverted, above max and
\* below min, and ok only if the type passed is the sub-object's and
\* min <= value <= max; for a sub-object of another type it returns ok.
C36_ChkValBasic ==
  [][last'.op = "co_sub_chk_val" =>
       IF sub[last'.s].type \in BasicTypes
       THEN /\ last'.ret = ChkCode(sub[last'.s], last'.inds[1], last'.arg)
            /\ last'.ret = 0 =>
                 /\ sub[last'.s].type = last'.inds[1]
                 /\ InRange(sub, last'.s, last'.arg)
       ELSE last'.ret = 0]_vars

\* A value above the upper limit has been checked against inverted limits
\* and the inverted range reported.
C36_Witness ==
  /\ last.op = "co_sub_chk_val"
  /\ sub[last.s].type = last.inds[1]
  /\ ~LessEq(sub[last.s].min, sub[last.s].max)
  /\ ~LessEq(last.arg, sub[last.s].max)
  /\ last.ret = CO_SDO_AC_PARAM_RANGE

\* ------------------------------------------------------------ properties of
\* co_sub_dn

\* Whether sub-object s refuses writes on download.
RefusesWrite(s) == HasBit(sub[s].flags, CO_OBJ_FLAGS_WRITE)

\* C37: co_sub_dn returns 0 and stores the value iff CO_OBJ_FLAGS_WRITE of
\* the sub-object is clear; with the flag set the stored value stays as it
\* was, also in a download through the default indication that returns
\* abort code 0, as it does for every value within the limits.
C37_CommitIffFlagClear ==
  [][/\ last'.op = "co_sub_dn" =>
          /\ last'.ret = 0
          /\ SubVal(sub', heap', last'.s)
               = IF RefusesWrite(last'.s) THEN SubVal(sub, heap, last'.s)
                 ELSE last'.arg
     /\ (DefaultDownload /\ RefusesWrite(last'.s)) =>
          /\ SubVal(sub', heap', last'.s) = SubVal(sub, heap, last'.s)
          /\ InRange(sub, last'.s, last'.arg) => last'.ret = 0
     /\ (DefaultDownload /\ ~RefusesWrite(last'.s) /\ last'.ret = 0) =>
          SubVal(sub', heap', last'.s) = last'.arg]_vars

\* A download through the default indication has returned 0 for a value
\* other than the stored one and the stored value is not the value
\* downloaded, the sub-object refusing writes.
C37_Witness ==
  /\ last.op = "co_sub_dn_ind"
  /\ last.ind = "default_sub_dn_ind"
  /\ last.ret = 0
  /\ last.s = TestSub
  /\ RefusesWrite(TestSub)
  /\ SubVal(sub, heap, TestSub) # last.arg

\* ------------------------------------------------------------ properties of
\* the reference count and the flag

\* Every reference acquired has been released and no thread is about to
\* destroy the handle.
AllReleased(H) ==
  /\ H.acquired > 0
  /\ H.ref = 0
  /\ \A t \in Threads : H.thr[t].pc = "" /\ H.thr[t].held = 0

\* What C38 says of a step: io_handle_destroy() is called once, with no
\* reference held, by the thread whose release found the count at 1; the
\* handle has been destroyed when all references are released; and
\* io_handle_unique() returns 1 exactly when the count is 1.
RefCounted ==
  /\ last'.op = "io_handle_destroy" =>
       /\ handle.destroyed = 0
       /\ handle.ref = 0
       /\ \A t \in Threads : handle.thr[t].held = 0
  /\ last'.op = "io_handle_release" =>
       \A t \in Threads :
         handle'.thr[t].pc = "destroy"
           <=> (last'.arg = <<t>> /\ handle.ref = 1 /\ handle'.ref = 0)
  /\ AllReleased(handle') => handle'.destroyed = 1
  /\ last'.op = "io_handle_unique" => (last'.ret = 1 <=> handle.ref = 1)

\* C38 as claimed: in every interleaving of acquires and releases in which
\* each release follows an acquire of its thread, the handle is destroyed
\* exactly once, by the release that lowers the count from 1 to 0, never
\* while a reference is held, and io_handle_unique returns 1 exactly when
\* the count is 1.
C38_RefCountAny == [][RefCounted]_vars

\* C38: the same for the interleavings in which no acquire finds the count
\* at zero after the first acquire.
C38_RefCount == [][~handle'.late => RefCounted]_vars

\* MaxAcq references have been acquired and released, every acquire but the
\* first while a reference was held, and the last release has destroyed the
\* handle.
C38_Witness ==
  /\ AllReleased(handle)
  /\ ~handle.late
  /\ handle.acquired = MaxAcq
  /\ handle.destroyed = 1
  /\ last.op = "io_handle_destroy"

\* C39: atomic_flag_clear leaves the flag clear, as
\* atomic_flag_clear_explicit does, so that the next
\* atomic_flag_test_and_set returns false.
C39_ClearClears ==
  [][/\ last'.op \in {"atomic_flag_clear", "atomic_flag_clear_explicit"}
          => ~flag'.value
     /\ (last.op \in {"atomic_flag_clear", "atomic_flag_clear_explicit"}
         /\ last'.op = "atomic_flag_test_and_set") => last'.ret = 0]_vars

====
